---- MODULE Spec2Model ----
(***************************************************************************)
(* State-machine model of the IPTV backend.                                *)
(*                                                                         *)
(*  - the stream proxy gateway of src/src/app.js (activeConnections,       *)
(*    fetchingUrls, killStream, DELETE and GET /api/proxy/stream);         *)
(*  - the get-stream-single resolver of src/src/routes/channels.js         *)
(*    (linkCache, sessionMap);                                             *)
(*  - the token cache of src/src/services/magStalkerService.js            *)
(*    (tokenCache, channelsCache, getChannelToken, syncAll);               *)
(*  - the bulk sync engine of fastChannelSyncService.js, fastSync.js and   *)
(*    channelSyncService.js with its normalizers (store, playlist).        *)
(*                                                                         *)
(* Time is in milliseconds and is kept relative: a pending setTimeout is   *)
(* the time left until it is due, and a stored Date.now() timestamp is the *)
(* age Date.now() - timestamp of the entry.  A timer callback runs when    *)
(* its time left is 0: the clock never passes a pending timer, but other   *)
(* handlers may run at the same instant before it.                         *)
(***************************************************************************)
EXTENDS Integers, Sequences, FiniteSets, Bags, TLC

VARIABLES
    activeConnections, \* app.js:37   key -> [stream, res, age, url]
    fetchingUrls,      \* app.js:38   set of urlKey
    guardTimers,       \* pending setTimeout(() => fetchingUrls.delete(urlKey), 3000)
    rq,                \* one record per GET /api/proxy/stream request
    killResp,          \* body of the last DELETE response
    recent,            \* history: request -> time since it arrived, while below 3 s
    linkCache,         \* channels.js:12  channelId -> [url, age]
    sessionMap,        \* channels.js:13  macAddress -> [password, age]
    sq,                \* one record per POST /channels/get-stream-single request
    tokenCache,        \* magStalkerService.js:27  channelId -> [secret, age, born]
    channelsCache,     \* magStalkerService.js:22-23  [channels, age] or NoCache
    tq,                \* one record per getChannelToken call
    store,             \* the Channel collection: a bag of channel rows
    playlist,          \* the Playlist document of the synced playlist
    sy,                \* one record per syncPlaylist run
    lastDone,          \* history: the latest completed syncPlaylist run
    hs,                \* the handshake of a portal client and the calls after it
    gf,                \* the per-genre requests of a portal client
    m3,                \* the streaming M3U download of _syncM3U
    fa,                \* the upstream attempts of one proxied stream request
    sv,                \* the MagStalkerService instances of the process and the last cache lookup
    bg,                \* the background re-sync timers of the process
    sa,                \* one run of MagStalkerService.syncAll
    pg,                \* the fast-sync runs of one playlist and its syncProgress entry
    rl                 \* channels.js:552-603  the release-stream request: [pc, in, success, cleared]

vars == <<activeConnections, fetchingUrls, guardTimers, rq, killResp, recent,
          linkCache, sessionMap, sq, tokenCache, channelsCache, tq,
          store, playlist, sy, lastDone, hs, gf, m3, fa, sv, bg, sa, pg, rl>>

proxyVars  == <<activeConnections, fetchingUrls, guardTimers, rq, killResp, recent>>
singleVars == <<linkCache, sessionMap, sq>>
tokenVars  == <<tokenCache, channelsCache, tq>>
syncVars   == <<store, playlist, sy, lastDone>>
clientVars == <<hs, gf, m3, fa, sv, bg, sa, pg, rl>>
coreVars   == <<proxyVars, singleVars, tokenVars, syncVars>>
besideHs   == <<coreVars, gf, m3, fa, sv, bg, sa, pg, rl>>
besideGf   == <<coreVars, hs, m3, fa, sv, bg, sa, pg, rl>>
besideM3   == <<coreVars, hs, gf, fa, sv, bg, sa, pg, rl>>
besideFa   == <<coreVars, hs, gf, m3, sv, bg, sa, pg, rl>>
besideSv   == <<coreVars, hs, gf, m3, fa, bg, sa, pg, rl>>
besideBg   == <<coreVars, hs, gf, m3, fa, sv, sa, pg, rl>>
besideSa   == <<coreVars, hs, gf, m3, fa, sv, bg, pg, rl>>
besidePg   == <<coreVars, hs, gf, m3, fa, sv, bg, sa, rl>>
besideRl   == <<coreVars, hs, gf, m3, fa, sv, bg, sa, pg>>

----------------------------------------------------------------------------
(* Bounds of the model *)

MaxReq == 2          \* GET /api/proxy/stream requests in one behaviour
MaxSingle == 2       \* get-stream-single requests in one behaviour
MaxToken == 2        \* getChannelToken calls in one behaviour
MaxSync == 2         \* syncPlaylist runs in one behaviour
MaxSrc == 2          \* channels in an upstream list
BatchSize == 1       \* channels in a bulk-write batch (DB_BATCH_SIZE, BATCH_SIZE)
MaxPaths == 3        \* candidate API paths of a portal client
MaxGenres == 9       \* genres of a portal
MaxText == 5         \* bytes of an M3U playlist
MaxInst == 3         \* MagStalkerService instances in one behaviour
MaxRuns == 2         \* runs of one background re-sync chain
MaxStart == 2        \* POST /:playlistId/start requests in one behaviour
MaxBatches == 2      \* bulkWrite batches of one fast-sync run

(* Program constants *)

SettleMs == 200         \* app.js:121
GuardMs == 3000         \* app.js:131
LinkTtlMs == 300000     \* channels.js:356
SessionTtlMs == 600000  \* channels.js:367
ReapAgeMs == 300000     \* 5 * 60 * 1000, the age ceiling of the reaper
ReapPeriodMs == 60000   \* 60 * 1000, the period of the reaper
TokenTtlMs == 600000    \* magStalkerService.js:28

(* Clock steps of the fine-grained and of the coarse-grained specifications; *)
(* the clock also stops at every timer expiry.  2900 ms lets a request      *)
(* arrive just inside the guard window of another.                          *)
FineSteps == {2900}
CoarseSteps == {60000}

Min(S) == CHOOSE x \in S : \A y \in S : x <= y

----------------------------------------------------------------------------
(* Request inputs of the gateway.  A URL is the decoded `url` query        *)
(* parameter: the part before '?', the query parameters stream, play_token *)
(* and mac, the digits of a trailing "/<digits>" or "/<digits>.ts" (tail), *)
(* and whether new URL() accepts it.                                       *)

NoUrl  == [path |-> "", stream |-> "", play_token |-> "", mac |-> "",
           tail |-> "", valid |-> FALSE]
UrlA   == [path |-> "http://p/play/live.php", stream |-> "7", play_token |-> "t1",
           mac |-> "m1", tail |-> "", valid |-> TRUE]
UrlA2  == [path |-> "http://p/play/live.php", stream |-> "7", play_token |-> "t2",
           mac |-> "m1", tail |-> "", valid |-> TRUE]
UrlX   == [path |-> "http://x/live/u/p/8.ts", stream |-> "", play_token |-> "",
           mac |-> "", tail |-> "8", valid |-> TRUE]
UrlBad == [path |-> "nohost/7", stream |-> "", play_token |-> "",
           mac |-> "", tail |-> "7", valid |-> FALSE]

Queries ==
    { [url |-> UrlA,   mac |-> "m1", channelId |-> "7"],
      [url |-> UrlA2,  mac |-> "",   channelId |-> ""],
      [url |-> UrlX,   mac |-> "",   channelId |-> "undefined"],
      [url |-> UrlBad, mac |-> "m1", channelId |-> ""],
      [url |-> NoUrl,  mac |-> "m1", channelId |-> "7"] }

KillParams == { <<"m1", "7">> }

Reqs == DOMAIN rq

(* app.js:103-106 *)
ResolveChannelId(q) ==
    IF q.channelId = "" \/ q.channelId = "undefined"
    THEN IF q.url.stream # "" THEN q.url.stream
         ELSE IF q.url.tail # "" THEN q.url.tail
         ELSE "unknown"
    ELSE q.channelId

(* app.js:110-113 *)
ResolveMac(q) ==
    IF q.mac = "" \/ q.mac = "undefined"
    THEN IF q.url.mac # "" THEN q.url.mac ELSE "unknown"
    ELSE q.mac

(* app.js:42, 184: `${mac}_${channelId}` *)
ConnKey(mac, channelId) == <<mac, channelId>>

(* app.js:125: the URL before '?', then its stream= and play_token= parameters *)
UrlKey(u) == <<u.path, u.stream, u.play_token>>

(* app.js:117 *)
Identified(mac, channelId) ==
    mac # "" /\ mac # "unknown" /\ channelId # "" /\ channelId # "unknown"

----------------------------------------------------------------------------
(* Map helpers *)

MapDelete(m, k) == [x \in (DOMAIN m) \ {k} |-> m[x]]
MapSet(m, k, v) == [x \in (DOMAIN m) \cup {k} |-> IF x = k THEN v ELSE m[x]]
EmptyMap == [x \in {} |-> 0]

----------------------------------------------------------------------------
(* killStream (app.js:41-68): the effect on the table, on the upstream     *)
(* streams and on the responses of the requests, and the returned flag.    *)

(* killStream without the early return for a key that has no entry *)
killStreamBlind(mac, channelId) ==
    LET key == ConnKey(mac, channelId) IN
    [ killed |-> TRUE,
      conns  |-> MapDelete(activeConnections, key),
      rq     |-> [r \in Reqs |->
                   [rq[r] EXCEPT !.resEnded =
                      IF /\ key \in DOMAIN activeConnections
                         /\ r = activeConnections[key].res
                      THEN TRUE ELSE @]] ]

(* killStream that ends the response and drops the entry but leaves the   *)
(* upstream stream open                                                    *)
killStreamNoDestroy(mac, channelId) ==
    LET key == ConnKey(mac, channelId) IN
    IF key \in DOMAIN activeConnections
    THEN [ killed |-> TRUE,
           conns  |-> MapDelete(activeConnections, key),
           rq     |-> [r \in Reqs |->
                        [rq[r] EXCEPT !.resEnded =
                           IF r = activeConnections[key].res THEN TRUE ELSE @]] ]
    ELSE [ killed |-> FALSE, conns |-> activeConnections, rq |-> rq ]

killStream(mac, channelId) ==
    LET key == ConnKey(mac, channelId) IN
    IF key \in DOMAIN activeConnections
    THEN LET conn == activeConnections[key] IN
         [ killed |-> TRUE,
           conns  |-> MapDelete(activeConnections, key),
           rq     |-> [r \in Reqs |->
                        [rq[r] EXCEPT
                           !.upstream = IF r = conn.stream /\ @ = "open"
                                        THEN "destroyed" ELSE @,
                           !.resEnded = IF r = conn.res THEN TRUE ELSE @]] ]
    ELSE [ killed |-> FALSE, conns |-> activeConnections, rq |-> rq ]

(* History of the DELETE handler: the requests for the killed key that are *)
(* still connecting (settle delay or upstream fetch pending).              *)
MarkKilled(reqs, mac, channelId) ==
    [r \in Reqs |->
       IF /\ reqs[r].pc \in {"settle", "fetch"}
          /\ ConnKey(reqs[r].mac, reqs[r].channelId) = ConnKey(mac, channelId)
       THEN [reqs[r] EXCEPT !.killedConnecting = TRUE]
       ELSE reqs[r]]

(* app.delete('/api/proxy/stream/:mac/:channelId') (app.js:71-81) *)
Kill(mac, channelId) ==
    LET k == killStream(mac, channelId) IN
    /\ activeConnections' = k.conns
    /\ rq' = MarkKilled(k.rq, mac, channelId)
    /\ killResp' = [mac |-> mac, channelId |-> channelId, success |-> k.killed,
                    message |-> IF k.killed THEN "Stream terminated"
                                ELSE "Stream not found"]
    /\ UNCHANGED <<fetchingUrls, guardTimers, recent, singleVars, tokenVars, syncVars, clientVars>>

----------------------------------------------------------------------------
(* GET /api/proxy/stream (app.js:84-219) *)

NewReq == [pc |-> "new", q |-> [url |-> NoUrl, mac |-> "", channelId |-> ""],
           mac |-> "", channelId |-> "", status |-> 0, upstream |-> "none",
           resEnded |-> FALSE, headersSent |-> FALSE, left |-> 0,
           killRequested |-> FALSE, waited |-> 0, fetched |-> FALSE,
           dupOf |-> {}, killedConnecting |-> FALSE, terminated |-> {}]

(* res.status(code).json(...): the response is sent and ended *)
Reply(r, code) == [r EXCEPT !.pc = "done", !.status = code, !.left = 0,
                            !.resEnded = TRUE, !.headersSent = TRUE]

(* A settle timer one millisecond short of the delay *)
SettleTimerShort == SettleMs - 1

(* app.js:121: setTimeout(resolve, 200) *)
SettleTimer == SettleMs

(* The guard entry without its timer *)
GuardTimerNever(urlKey, i) == {}

(* app.js:131: setTimeout(() => fetchingUrls.delete(urlKey), 3000), armed by *)
(* request i                                                                 *)
GuardTimer(urlKey, i) == {[key |-> urlKey, left |-> GuardMs, id |-> i]}

(* app.js:124-169: the duplicate-URL guard, the host parse and the issue of *)
(* the upstream fetch, run in one synchronous stretch by request i, whose   *)
(* record is r; reqs is the table of requests before the stretch.           *)
GuardAndFetch(i, r, reqs) ==
    LET urlKey == UrlKey(r.q.url) IN
    IF urlKey \in fetchingUrls
    THEN /\ rq' = [reqs EXCEPT ![i] = Reply(r, 429)]
         /\ UNCHANGED <<fetchingUrls, guardTimers>>
    ELSE IF ~ r.q.url.valid
    THEN \* added, timer armed, then deleted again on the parse error
         /\ rq' = [reqs EXCEPT ![i] = Reply(r, 400)]
         /\ fetchingUrls' = fetchingUrls \ {urlKey}
         /\ guardTimers' = guardTimers \cup GuardTimer(urlKey, i)
    ELSE /\ rq' = [reqs EXCEPT ![i] = [r EXCEPT !.pc = "fetch", !.left = 0,
                                                !.fetched = TRUE]]
         /\ fetchingUrls' = fetchingUrls \cup {urlKey}
         /\ guardTimers' = guardTimers \cup GuardTimer(urlKey, i)

(* History: the requests for the same normalized URL that arrived less    *)
(* than 3 s ago                                                            *)
EarlierSameUrl(q) ==
    {j \in DOMAIN recent : rq[j].q.url # NoUrl /\ UrlKey(rq[j].q.url) = UrlKey(q.url)}

(* History: the streams that the killStream call of an arriving request   *)
(* (app.js:117) terminates                                                 *)
Terminated(mac, channelId) ==
    LET key == ConnKey(mac, channelId) IN
    IF key \in DOMAIN activeConnections
    THEN {activeConnections[key].stream} ELSE {}

(* app.js:84-122: the request arrives *)
Arrive(i, q) ==
    /\ i = Len(rq) + 1
    /\ i <= MaxReq
    /\ LET mac == ResolveMac(q)
           channelId == ResolveChannelId(q)
           r0 == [NewReq EXCEPT !.q = q, !.mac = mac, !.channelId = channelId,
                               !.dupOf = EarlierSameUrl(q)]
       IN /\ recent' = MapSet(recent, i, 0)
          /\ IF q.url = NoUrl
             THEN /\ rq' = Append(rq, Reply([NewReq EXCEPT !.q = q], 400))
                  /\ UNCHANGED <<activeConnections, fetchingUrls, guardTimers>>
             ELSE IF Identified(mac, channelId)
             THEN LET k == killStream(mac, channelId) IN
                  /\ activeConnections' = k.conns
                  /\ rq' = Append(k.rq, [r0 EXCEPT !.pc = "settle",
                                                   !.killRequested = TRUE,
                                                   !.left = SettleTimer,
                                                   !.terminated = Terminated(mac, channelId)])
                  /\ UNCHANGED <<fetchingUrls, guardTimers>>
             ELSE /\ GuardAndFetch(i, r0, Append(rq, r0))
                  /\ UNCHANGED activeConnections
    /\ UNCHANGED <<killResp, singleVars, tokenVars, syncVars, clientVars>>

(* app.js:121-169: the settle timer fires and the handler resumes.  Timers *)
(* of one duration fire in the order in which they were armed.             *)
Settle(i) ==
    /\ rq[i].pc = "settle"
    /\ rq[i].left = 0
    /\ \A j \in Reqs : j < i => rq[j].pc # "settle"
    /\ GuardAndFetch(i, rq[i], rq)
    /\ UNCHANGED <<activeConnections, killResp, recent, singleVars, tokenVars, syncVars, clientVars>>

(* app.js:161-211: axios resolves (status < 500); the connection is stored *)
(* and piped.                                                              *)
FetchResolve(i) ==
    /\ rq[i].pc = "fetch"
    /\ activeConnections' =
          MapSet(activeConnections, ConnKey(rq[i].mac, rq[i].channelId),
                 [stream |-> i, res |-> i, age |-> 0, url |-> rq[i].q.url])
    /\ rq' = [rq EXCEPT ![i] = [@ EXCEPT !.pc = "streaming", !.upstream = "open",
                                         !.status = 200]]
    /\ UNCHANGED <<fetchingUrls, guardTimers, killResp, recent, singleVars, tokenVars, syncVars, clientVars>>

(* app.js:213-218: axios rejects (network error, 30 s timeout, status >= 500) *)
FetchFail(i) ==
    /\ rq[i].pc = "fetch"
    /\ rq' = [rq EXCEPT ![i] = Reply(@, 500)]
    /\ UNCHANGED <<activeConnections, fetchingUrls, guardTimers, killResp, recent,
                   singleVars, tokenVars, syncVars, clientVars>>

(* An 'end' handler that forgets the table *)
StreamEndKeepsEntry(i) ==
    /\ rq[i].pc = "streaming"
    /\ rq[i].upstream = "open"
    /\ fetchingUrls' = fetchingUrls \ {UrlKey(rq[i].q.url)}
    /\ rq' = [rq EXCEPT ![i] = [@ EXCEPT !.pc = "done", !.upstream = "ended",
                                         !.resEnded = TRUE, !.headersSent = TRUE]]
    /\ UNCHANGED <<activeConnections, guardTimers, killResp, recent, singleVars,
                   tokenVars, syncVars, clientVars>>

(* app.js:198-202: response.data.on('end') *)
StreamEnd(i) ==
    /\ rq[i].pc = "streaming"
    /\ rq[i].upstream = "open"
    /\ activeConnections' =
          MapDelete(activeConnections, ConnKey(rq[i].mac, rq[i].channelId))
    /\ fetchingUrls' = fetchingUrls \ {UrlKey(rq[i].q.url)}
    /\ rq' = [rq EXCEPT ![i] = [@ EXCEPT !.pc = "done", !.upstream = "ended",
                                         !.resEnded = TRUE, !.headersSent = TRUE]]
    /\ UNCHANGED <<guardTimers, killResp, recent, singleVars, tokenVars, syncVars, clientVars>>

(* app.js:204-211: response.data.on('error').  sent: whether a chunk had   *)
(* been piped to the viewer before the error, i.e. res.headersSent          *)
(* (app.js:196, 208).                                                       *)
StreamError(i, sent) ==
    /\ rq[i].pc = "streaming"
    /\ rq[i].upstream = "open"
    /\ activeConnections' =
          MapDelete(activeConnections, ConnKey(rq[i].mac, rq[i].channelId))
    /\ fetchingUrls' = fetchingUrls \ {UrlKey(rq[i].q.url)}
    /\ rq' = [rq EXCEPT ![i] =
                IF ~ sent
                THEN [@ EXCEPT !.pc = "done", !.upstream = "errored", !.status = 500,
                               !.resEnded = TRUE, !.headersSent = TRUE]
                ELSE [@ EXCEPT !.pc = "done", !.upstream = "errored",
                               !.headersSent = TRUE]]
    /\ UNCHANGED <<guardTimers, killResp, recent, singleVars, tokenVars, syncVars, clientVars>>

(* The viewer closes its connection while the upstream is piped.  app.js  *)
(* registers no 'close' handler on req or res: pipe() (app.js:196) stops   *)
(* reading the upstream, which neither ends nor is destroyed, and the      *)
(* table entry (app.js:185-192) stays.                                     *)
ViewerClose(i) ==
    /\ rq[i].pc = "streaming"
    /\ rq[i].upstream = "open"
    /\ ~ rq[i].resEnded
    /\ rq' = [rq EXCEPT ![i] = [@ EXCEPT !.resEnded = TRUE]]
    /\ UNCHANGED <<activeConnections, fetchingUrls, guardTimers, killResp, recent,
                   singleVars, tokenVars, syncVars, clientVars>>

(* app.js:131: the guard's timer callback *)
GuardTimeout(t) ==
    /\ t \in guardTimers
    /\ t.left = 0
    /\ fetchingUrls' = fetchingUrls \ {t.key}
    /\ guardTimers' = guardTimers \ {t}
    /\ UNCHANGED <<activeConnections, rq, killResp, recent, singleVars, tokenVars, syncVars, clientVars>>

----------------------------------------------------------------------------
(* POST /channels/get-stream-single (channels.js:334-471)                  *)

Singles == DOMAIN sq

(* The playlists of the store, by id (Playlist.findById, channels.js:342) *)
Playlists ==
    [ p1 |-> [type |-> "mag", origin |-> "http://a", path |-> "/c/",
              macAddress |-> "m1", xtreamUsername |-> "", xtreamPassword |-> ""],
      p2 |-> [type |-> "mag", origin |-> "http://b", path |-> "",
              macAddress |-> "m2", xtreamUsername |-> "", xtreamPassword |-> ""],
      px |-> [type |-> "xtream", origin |-> "http://x", path |-> "/",
              macAddress |-> "", xtreamUsername |-> "u", xtreamPassword |-> "p"] ]

(* Request bodies: playlistId, channelId, cmd ("live": a play/live.php URL, *)
(* "xt": http://host:80/user/..., "": none) and whether the stored Channel  *)
(* document carries a url (Channel.findOne, channels.js:426).               *)
SingleInputs ==
    { [playlistId |-> "p1", channelId |-> "7", cmd |-> "live", stored |-> FALSE],
      [playlistId |-> "p1", channelId |-> "7", cmd |-> "",     stored |-> TRUE],
      [playlistId |-> "p2", channelId |-> "7", cmd |-> "xt",   stored |-> FALSE],
      [playlistId |-> "px", channelId |-> "8", cmd |-> "xt",   stored |-> FALSE],
      [playlistId |-> "p0", channelId |-> "7", cmd |-> "live", stored |-> FALSE] }

(* The password get_profile answers with; NoPassword: null (no token, an   *)
(* error or a reply without js.password, channels.js:116-186)              *)
Passwords == {"pwA", "pwB"}
NoPassword == ""

NoLink == [form |-> "none", base |-> "", mac |-> "", user |-> "", stream |-> "",
           token |-> ""]

(* channels.js:62-70 extractUrl, on the three kinds of cmd *)
extractUrl(raw) ==
    IF raw = "" THEN NoLink
    ELSE [form |-> "raw", base |-> raw, mac |-> "", user |-> "", stream |-> "",
          token |-> ""]

(* channels.js:392: sourceUrl.replace(/\/+$/, '') *)
BaseUrl(pl) == [origin |-> pl.origin,
                path |-> IF pl.path \in {"/", "//"} THEN ""
                         ELSE IF pl.path = "/c/" THEN "/c" ELSE pl.path]

(* channels.js:399: a trailing "/c" is dropped *)
BasePath(pl) == IF BaseUrl(pl).path = "/c" THEN pl.origin
                ELSE pl.origin \o BaseUrl(pl).path

(* channels.js:391-417: the URL built from the session password; NoLink    *)
(* when the code throws (cmd undefined or not parsable)                    *)
BuildUrl(pl, channelId, cmd, password) ==
    IF BaseUrl(pl).path = "/play/live.php" \/ cmd = "live"
    THEN [form |-> "live.php", base |-> BasePath(pl), mac |-> pl.macAddress,
          user |-> "", stream |-> channelId, token |-> password]
    ELSE IF cmd = "xt"
    THEN [form |-> "xtream", base |-> "http://cmdhost", mac |-> "", user |-> "cmduser",
          stream |-> channelId, token |-> password]
    ELSE NoLink

NewSingle == [pc |-> "new",
              in |-> [playlistId |-> "", channelId |-> "", cmd |-> "", stored |-> FALSE],
              status |-> 0, type |-> "", url |-> NoLink,
              cacheAge |-> -1, sessAge |-> -1]

Answer(r, status, type, url) ==
    [r EXCEPT !.pc = "done", !.status = status, !.type = type, !.url = url]

(* The cache entry served up to and including the TTL *)
LinkFreshInclusive(channelId) ==
    channelId \in DOMAIN linkCache /\ linkCache[channelId].age <= LinkTtlMs

(* channels.js:356: the per-channel cache entry is served *)
LinkFresh(channelId) ==
    channelId \in DOMAIN linkCache /\ linkCache[channelId].age < LinkTtlMs

(* channels.js:364-367: the stored session password is reused *)
SessionValid(mac) ==
    mac \in DOMAIN sessionMap /\ ~ (sessionMap[mac].age > SessionTtlMs)

(* channels.js:424-432: the catch block of the portal branch *)
MagFallback(r) ==
    LET fb == IF r.in.stored
              THEN [form |-> "stored", base |-> r.in.channelId, mac |-> "",
                    user |-> "", stream |-> "", token |-> ""]
              ELSE extractUrl(r.in.cmd)
    IN IF fb # NoLink THEN Answer(r, 200, "mag_fallback", fb)
       ELSE Answer(r, 502, "", NoLink)

(* channels.js:387-432: with the session password in hand, build the URL,  *)
(* cache it and answer; on a throw, the catch block                        *)
BuildAndAnswer(j, r, pl, password) ==
    LET freshUrl == BuildUrl(pl, r.in.channelId, r.in.cmd, password)
        base == IF j \in DOMAIN sq THEN sq ELSE Append(sq, r)
    IN
    IF password = NoPassword \/ freshUrl = NoLink
    THEN /\ sq' = [base EXCEPT ![j] = MagFallback(r)]
         /\ UNCHANGED linkCache
    ELSE /\ sq' = [base EXCEPT ![j] = Answer(r, 200, "mag", freshUrl)]
         /\ linkCache' = MapSet(linkCache, r.in.channelId,
                                [url |-> freshUrl, age |-> 0])

(* channels.js:334-389, 435-465: from the arrival of the request to its    *)
(* answer or to the await of the handshake                                 *)
SingleStart(j, in) ==
    /\ j = Len(sq) + 1
    /\ j <= MaxSingle
    /\ LET r0 == [NewSingle EXCEPT !.in = in] IN
       IF in.playlistId \notin DOMAIN Playlists
       THEN /\ sq' = Append(sq, Answer(r0, 404, "", NoLink))
            /\ UNCHANGED <<linkCache, sessionMap>>
       ELSE LET pl == Playlists[in.playlistId] IN
       IF pl.type = "mag"
       THEN IF pl.origin = "" \/ pl.macAddress = ""
            THEN /\ sq' = Append(sq, Answer(r0, 400, "", NoLink))
                 /\ UNCHANGED <<linkCache, sessionMap>>
            ELSE LET r1 == [r0 EXCEPT !.cacheAge =
                               IF in.channelId \in DOMAIN linkCache
                               THEN linkCache[in.channelId].age ELSE -1] IN
            IF LinkFresh(in.channelId)
            THEN /\ sq' = Append(sq,
                            Answer(r1, 200, "mag_cached", linkCache[in.channelId].url))
                 /\ UNCHANGED <<linkCache, sessionMap>>
            ELSE IF SessionValid(pl.macAddress)
            THEN /\ BuildAndAnswer(j, [r1 EXCEPT !.sessAge = sessionMap[pl.macAddress].age],
                                   pl, sessionMap[pl.macAddress].password)
                 /\ UNCHANGED sessionMap
            ELSE /\ sq' = Append(sq, [r1 EXCEPT !.pc = "handshake"])
                 /\ UNCHANGED <<linkCache, sessionMap>>
       ELSE IF pl.type = "xtream"
       THEN /\ sq' = Append(sq,
                 IF pl.origin # "" /\ pl.xtreamUsername # "" /\ pl.xtreamPassword # ""
                 THEN Answer(r0, 200, "xtream",
                             [form |-> "xtream-live", base |-> BaseUrl(pl).origin \o BaseUrl(pl).path,
                              mac |-> "", user |-> pl.xtreamUsername,
                              stream |-> in.channelId, token |-> pl.xtreamPassword])
                 ELSE IF extractUrl(in.cmd) # NoLink
                 THEN Answer(r0, 200, "xtream_fallback", extractUrl(in.cmd))
                 ELSE Answer(r0, 400, "", NoLink))
            /\ UNCHANGED <<linkCache, sessionMap>>
       ELSE IF pl.type = "m3u"
       THEN /\ sq' = Append(sq,
                 IF in.stored
                 THEN Answer(r0, 200, "m3u",
                             [form |-> "stored", base |-> in.channelId, mac |-> "",
                              user |-> "", stream |-> "", token |-> ""])
                 ELSE IF extractUrl(in.cmd) # NoLink
                 THEN Answer(r0, 200, "m3u", extractUrl(in.cmd))
                 ELSE Answer(r0, 400, "", NoLink))
            /\ UNCHANGED <<linkCache, sessionMap>>
       ELSE /\ sq' = Append(sq, Answer(r0, 400, "", NoLink))
            /\ UNCHANGED <<linkCache, sessionMap>>
    /\ UNCHANGED <<proxyVars, tokenVars, syncVars, clientVars>>

(* channels.js:371-432: doHandshake and doGetProfile have answered with    *)
(* password (NoPassword: null)                                             *)
SingleProfile(j, password) ==
    /\ j \in Singles
    /\ sq[j].pc = "handshake"
    /\ LET pl == Playlists[sq[j].in.playlistId] IN
       /\ sessionMap' = IF password # NoPassword
                        THEN MapSet(sessionMap, pl.macAddress,
                                    [password |-> password, age |-> 0])
                        ELSE sessionMap
       /\ BuildAndAnswer(j, sq[j], pl, password)
    /\ UNCHANGED <<proxyVars, tokenVars, syncVars, clientVars>>

SingleStep ==
    \/ \E j \in 1..MaxSingle, in \in SingleInputs : SingleStart(j, in)
    \/ \E j \in Singles, p \in Passwords \cup {NoPassword} : SingleProfile(j, p)

----------------------------------------------------------------------------
(* MagStalkerService: the channel list and the token cache of one service  *)
(* instance (magStalkerService.js:22-28, 181-225, 783-842).  A secret      *)
(* stands for the streamingToken / streamUrl pair of a channel; born is    *)
(* history: the time since the sync that obtained the data.                *)

TokenChannels == {"7", "8"}
NoSecret == ""

(* The channel lists getAllChannels may deliver: channelId -> secret *)
PortalLists ==
    { [c \in {"7"} |-> "k1"],
      [c \in {"7", "8"} |-> IF c = "7" THEN "k2" ELSE NoSecret],
      [c \in {"8"} |-> "k3"] }

NoCache == [set |-> FALSE, channels |-> EmptyMap, age |-> 0]

NoToken == [channelId |-> "", found |-> FALSE, secret |-> NoSecret, stamp |-> 0,
            born |-> 0]

(* magStalkerService.js:186-187: the token cache entry is within its TTL *)
TokenFresh(c) ==
    c \in DOMAIN tokenCache /\ tokenCache[c].age < TokenTtlMs

(* magStalkerService.js:198-207: the channel list has the channel, with a  *)
(* token or a url                                                          *)
InChannelsCache(c) ==
    /\ channelsCache.set
    /\ c \in DOMAIN channelsCache.channels
    /\ channelsCache.channels[c] # NoSecret

(* magStalkerService.js:783-832: syncAll has fetched list *)
SyncAll(list) ==
    /\ channelsCache' = [set |-> TRUE, channels |-> list, age |-> 0]
    /\ tokenCache' =
          LET fresh == {c \in DOMAIN list : list[c] # NoSecret} IN
          [c \in DOMAIN tokenCache \cup fresh |->
             IF c \in fresh THEN [secret |-> list[c], age |-> 0, born |-> 0]
             ELSE tokenCache[c]]
    /\ UNCHANGED <<tq, proxyVars, singleVars, syncVars, clientVars>>

(* magStalkerService.js:181-225: getChannelToken(channelId) *)
GetChannelToken(c) ==
    /\ Len(tq) < MaxToken
    /\ IF TokenFresh(c)
       THEN /\ tq' = Append(tq, [channelId |-> c, found |-> TRUE,
                                 secret |-> tokenCache[c].secret,
                                 stamp |-> tokenCache[c].age,
                                 born |-> tokenCache[c].born])
            /\ UNCHANGED tokenCache
       ELSE IF InChannelsCache(c)
       THEN /\ tokenCache' = MapSet(tokenCache, c,
                                    [secret |-> channelsCache.channels[c],
                                     age |-> 0, born |-> channelsCache.age])
            /\ tq' = Append(tq, [channelId |-> c, found |-> TRUE,
                                 secret |-> channelsCache.channels[c],
                                 stamp |-> 0, born |-> channelsCache.age])
       ELSE /\ tq' = Append(tq, [NoToken EXCEPT !.channelId = c])
            /\ UNCHANGED tokenCache
    /\ UNCHANGED <<channelsCache, proxyVars, singleVars, syncVars, clientVars>>

TokenStep ==
    \/ \E list \in PortalLists : SyncAll(list)
    \/ \E c \in TokenChannels : GetChannelToken(c)

----------------------------------------------------------------------------
(* The bulk sync engine: FastChannelSyncService behind POST                *)
(* /api/fast-sync/:playlistId/start (fastChannelSyncService.js,            *)
(* fastSync.js) and ChannelSyncService (channelSyncService.js), on one     *)
(* playlist.  A raw record is what the upstream lists for a channel: its   *)
(* native id (id / tvg-id / stream_id; NoId: none) and its name.  A        *)
(* canonical channel keeps channelId and name; the other source-derived    *)
(* fields are copied the way name is.                                      *)
NoId == ""

Raws == { [id |-> "a", name |-> "x"], [id |-> "b", name |-> "y"],
          [id |-> NoId, name |-> ""] }

SeqsUpTo(S, n) == UNION { [1..m -> S] : m \in 0..n }

(* The lists an upstream may deliver *)
SourceLists == SeqsUpTo(Raws, MaxSrc)

(* The values Math.random() may deliver, as the id made of them *)
RandIds == {"r1", "r2"}

(* ch.name || ch.title || ch.display_name || 'Unknown' *)
NameOf(raw) == IF raw.name = "" THEN "Unknown" ELSE raw.name

(* magStalkerService.js:885-948 transformChannels; rnd[i] is the value of   *)
(* Math.random() at record i                                                *)
transformChannels(list, rnd) ==
    [i \in 1..Len(list) |->
        [channelId |-> IF list[i].id # NoId THEN list[i].id ELSE rnd[i],
         name |-> NameOf(list[i])]]

(* fastChannelSyncService.js:369-387 _transformMAGChannel, r the value of   *)
(* Math.random()                                                            *)
transformMAGChannel(ch, r) ==
    [channelId |-> IF ch.id # NoId THEN ch.id ELSE r, name |-> NameOf(ch)]

(* fastChannelSyncService.js:157-180 _parseExtInf: tvgId || name *)
parseExtInf(raw) ==
    [channelId |-> IF raw.id # NoId THEN raw.id ELSE raw.name, name |-> raw.name]

(* `m3u_${channels.length}` *)
M3uId(k) == CASE k = 0 -> "m3u_0" [] k = 1 -> "m3u_1" [] k = 2 -> "m3u_2"
              [] OTHER -> "m3u_3"

(* fastChannelSyncService.js:120-126: every entry is followed by its URL    *)
(* line, so that entry i is pushed when channels.length is i - 1            *)
syncM3U(list) ==
    [i \in 1..Len(list) |->
        LET meta == parseExtInf(list[i])
        IN  [meta EXCEPT !.channelId = IF @ # "" THEN @ ELSE M3uId(i - 1)]]

(* fastChannelSyncService.js:214-224: String(s.stream_id) *)
syncXtream(list) ==
    [i \in 1..Len(list) |->
        [channelId |-> IF list[i].id # NoId THEN list[i].id ELSE "undefined",
         name |-> NameOf(list[i])]]

(* fastChannelSyncService.js:354-360: the first record of every id, records *)
(* without id dropped                                                       *)
RECURSIVE UniqueById(_)
UniqueById(list) ==
    IF list = << >> THEN << >>
    ELSE LET n == Len(list)
             init == SubSeq(list, 1, n - 1)
         IN  IF list[n].id = NoId \/ \E j \in 1..(n - 1) : list[j].id = list[n].id
             THEN UniqueById(init)
             ELSE Append(UniqueById(init), list[n])

(* magStalkerService.js:721-723: new Map(allChannels.map(ch => [ch.id, ch])) *)
(* keeps the place of the first record of an id and the value of the last    *)
RECURSIVE UniqueChannels(_)
UniqueChannels(list) ==
    IF list = << >> THEN << >>
    ELSE LET n == Len(list)
             prev == UniqueChannels(SubSeq(list, 1, n - 1))
         IN  IF \E j \in 1..Len(prev) : prev[j].id = list[n].id
             THEN [j \in 1..Len(prev) |->
                      IF prev[j].id = list[n].id THEN list[n] ELSE prev[j]]
             ELSE Append(prev, list[n])

(* fastChannelSyncService.js:324-363 _syncMAG: the one-shot list when the   *)
(* portal answers one, else the lists by genre                              *)
syncMAG(list, oneShot, rnd) ==
    LET raw == IF oneShot THEN list ELSE UniqueById(list)
    IN  [i \in 1..Len(raw) |-> transformMAGChannel(raw[i], rnd[i])]

(* magStalkerService.js:496-515, 654-733 getAllChannels *)
getAllChannels(list, oneShot, rnd) ==
    transformChannels(IF oneShot THEN list ELSE UniqueChannels(list), rnd)

(* The Channel collection is a bag of rows of the one playlist; a row keeps *)
(* channelId, name and the three settings fields.                           *)
NoCustom == ""

(* The channels an admin has settings for, and the settings they are given  *)
SettingIds == {"a"}
SettingValues == { [isVisible |-> FALSE, customName |-> "n1", customLogo |-> "l1"] }

Types == {"m3u", "xtream", "mag"}
NoError == ""

NoPlaylist == [type |-> "none", status |-> "active", error |-> NoError,
               channelCount |-> 0, channelSettings |-> EmptyMap]

Matching(st, c) == {r \in BagToSet(st) : r.channelId = c}

(* updateOne {filter: {playlistId, channelId: c}, update: {$set: row},      *)
(* upsert: true} on the store                                               *)
UpsertOne(st, c, row) ==
    IF Matching(st, c) = {} THEN st (+) SetToBag({row})
    ELSE LET old == CHOOSE r \in Matching(st, c) : TRUE
         IN  (st (-) SetToBag({old})) (+) SetToBag({row})

(* The write operation without its filter: nothing matches *)
BulkOpInsert(ch, settings) ==
    [filter |-> "none",
     row |-> [channelId |-> ch.channelId, name |-> ch.name,
              isVisible |-> IF ch.channelId \in DOMAIN settings
                            THEN settings[ch.channelId].isVisible ELSE TRUE,
              customName |-> IF ch.channelId \in DOMAIN settings
                             THEN settings[ch.channelId].customName ELSE NoCustom,
              customLogo |-> IF ch.channelId \in DOMAIN settings
                             THEN settings[ch.channelId].customLogo ELSE NoCustom]]

(* fastChannelSyncService.js:413-432, channelSyncService.js:161-182: the    *)
(* write operation of one channel, with the settings loaded at the start    *)
BulkOp(ch, settings) ==
    [filter |-> ch.channelId,
     row |-> [channelId |-> ch.channelId, name |-> ch.name,
              isVisible |-> IF ch.channelId \in DOMAIN settings
                            THEN settings[ch.channelId].isVisible ELSE TRUE,
              customName |-> IF ch.channelId \in DOMAIN settings
                             THEN settings[ch.channelId].customName ELSE NoCustom,
              customLogo |-> IF ch.channelId \in DOMAIN settings
                             THEN settings[ch.channelId].customLogo ELSE NoCustom]]

(* Channel.bulkWrite(ops): the operations of one batch, one after another *)
RECURSIVE BulkWrite(_, _)
BulkWrite(st, ops) ==
    IF ops = << >> THEN st
    ELSE BulkWrite(UpsertOne(st, ops[1].filter, ops[1].row), Tail(ops))

(* deleteMany {channelId: {$nin: ids}} (fastChannelSyncService.js:443-447); *)
(* the rows channelSyncService.js:127-142 finds and deletes                 *)
DeleteNotIn(st, ids) ==
    [r \in {x \in BagToSet(st) : x.channelId \in ids} |-> st[r]]

ChannelIds(channels) == {channels[i].channelId : i \in DOMAIN channels}

(* fastChannelSyncService.js:404-407, channelSyncService.js:147-150 *)
NumBatches(channels) == (Len(channels) + BatchSize - 1) \div BatchSize

Batch(channels, b) ==
    SubSeq(channels, (b - 1) * BatchSize + 1,
           IF b * BatchSize < Len(channels) THEN b * BatchSize ELSE Len(channels))

NewSync == [svc |-> "", type |-> "", pc |-> "fetch", settings |-> EmptyMap,
            raw |-> << >>, oneShot |-> FALSE, fetchFailed |-> FALSE,
            channels |-> << >>,
            pending |-> {}, rejected |-> FALSE, inTurn |-> FALSE]

(* A sync that has ended and has no batch in flight keeps what it ended     *)
(* with; its working data is dropped.                                       *)
Ended(r) ==
    IF r.pc \in {"done", "error"} /\ r.pending = {}
    THEN [NewSync EXCEPT !.svc = r.svc, !.type = r.type, !.pc = r.pc,
                         !.fetchFailed = r.fetchFailed, !.rejected = r.rejected]
    ELSE r

(* History: the upstream list and the store of the latest completion *)
NoneDone == [set |-> FALSE, raw |-> << >>, oneShot |-> FALSE, result |-> EmptyBag]

Syncs == DOMAIN sy

(* app.js:310-341 createPlaylist *)
CreatePlaylist(type) ==
    /\ playlist.type = "none"
    /\ playlist' = [playlist EXCEPT !.type = type]
    /\ UNCHANGED <<store, sy, lastDone, proxyVars, singleVars, tokenVars, clientVars>>

(* app.js:531-568 updateChannelVisibility: the settings entry and the row *)
UpdateChannelVisibility(c, s) ==
    /\ playlist.type # "none"
    /\ playlist' = [playlist EXCEPT !.channelSettings = MapSet(@, c, s)]
    /\ store' = IF Matching(store, c) = {} THEN store
                ELSE LET old == CHOOSE r \in Matching(store, c) : TRUE
                     IN  (store (-) SetToBag({old})) (+)
                         SetToBag({[old EXCEPT !.isVisible = s.isVisible,
                                               !.customName = s.customName,
                                               !.customLogo = s.customLogo]})
    /\ UNCHANGED <<sy, lastDone, proxyVars, singleVars, tokenVars, clientVars>>

(* fastSync.js:81-95, fastChannelSyncService.js:41-48 (svc "fast");         *)
(* channelSyncService.js:34-44 (svc "classic", whose Xtream and M3U         *)
(* services are not part of the sources: portal playlists only).  inTurn is *)
(* history: every earlier sync had ended when this one began.               *)
SyncStart(svc) ==
    /\ playlist.type # "none"
    /\ svc = "classic" => playlist.type = "mag"
    /\ Len(sy) < MaxSync
    /\ sy' = Append(sy, [NewSync EXCEPT
                           !.svc = svc, !.type = playlist.type,
                           !.settings = playlist.channelSettings,
                           !.inTurn = \A j \in Syncs : /\ sy[j].pc \in {"done", "error"}
                                                       /\ sy[j].pending = {}])
    /\ UNCHANGED <<store, playlist, lastDone, proxyVars, singleVars, tokenVars, clientVars>>

(* The step after the fetch: _bulkSave returns at once for no channels      *)
(* (fastChannelSyncService.js:394); updateChannelsBulk deletes first        *)
AfterFetch(r, channels) ==
    [r EXCEPT !.channels = channels,
              !.pending = 1..NumBatches(channels),
              !.pc = IF r.svc = "classic" THEN "delete"
                     ELSE IF channels = << >> THEN "finish" ELSE "save"]

Normalize(r, list, oneShot, rnd) ==
    CASE r.svc = "classic"  -> getAllChannels(list, oneShot, rnd)
      [] r.type = "m3u"     -> syncM3U(list)
      [] r.type = "xtream"  -> syncXtream(list)
      [] OTHER              -> syncMAG(list, oneShot, rnd)

(* The upstream answers with list *)
SyncFetched(k, list, oneShot, rnd) ==
    /\ sy[k].pc = "fetch"
    /\ sy' = [sy EXCEPT ![k] = AfterFetch([@ EXCEPT !.raw = list,
                                                     !.oneShot = oneShot /\ sy[k].type = "mag"],
                                          Normalize(@, list, oneShot, rnd))]
    /\ UNCHANGED <<store, playlist, lastDone, proxyVars, singleVars, tokenVars, clientVars>>

(* The catch of the caller without its update of the playlist *)
MarkErrorNot(pl, msg) == pl

(* fastSync.js:111-121, channelSyncService.js:103-112: the catch of the     *)
(* caller                                                                   *)
MarkError(pl, msg) == [pl EXCEPT !.status = "error", !.error = msg]

(* The upstream is unreachable, times out or answers an HTTP error.         *)
(* _syncM3U and _syncXtream reject (fastChannelSyncService.js:104-106,      *)
(* 149-153, 198); _syncMAG and syncAll catch every error and go on with no  *)
(* channels (fastChannelSyncService.js:281, 299, 319, 345;                  *)
(* magStalkerService.js:833-841).                                           *)
SyncFetchFailed(k) ==
    /\ sy[k].pc = "fetch"
    /\ IF sy[k].type = "mag"
       THEN /\ sy' = [sy EXCEPT ![k] = AfterFetch([@ EXCEPT !.fetchFailed = TRUE],
                                                  << >>)]
            /\ UNCHANGED playlist
       ELSE /\ sy' = [sy EXCEPT ![k] = Ended([@ EXCEPT !.fetchFailed = TRUE,
                                                     !.pc = "error"])]
            /\ playlist' = MarkError(playlist, "fetch")
    /\ UNCHANGED <<store, lastDone, proxyVars, singleVars, tokenVars, clientVars>>

(* The batches a sync may write next: all of them at once in _bulkSave      *)
(* (Promise.all, fastChannelSyncService.js:412), even after one has failed; *)
(* one after another in updateChannelsBulk (channelSyncService.js:149)      *)
Writable(k) ==
    IF sy[k].svc = "fast"
    THEN IF sy[k].pc \in {"save", "error"} THEN sy[k].pending ELSE {}
    ELSE IF sy[k].pc = "save" THEN {b \in sy[k].pending :
                                       \A c \in sy[k].pending : b <= c}
         ELSE {}

(* Channel.bulkWrite of batch b commits *)
WriteBatch(k, b) ==
    /\ b \in Writable(k)
    /\ store' = BulkWrite(store,
                   [i \in DOMAIN Batch(sy[k].channels, b) |->
                       BulkOp(Batch(sy[k].channels, b)[i], sy[k].settings)])
    /\ sy' = [sy EXCEPT ![k] = Ended([@ EXCEPT
                   !.pending = @ \ {b},
                   !.pc = IF @ # "save" \/ sy[k].pending # {b} THEN @
                          ELSE IF sy[k].svc = "fast" THEN "delete"
                          ELSE "finish"])]
    /\ UNCHANGED <<playlist, lastDone, proxyVars, singleVars, tokenVars, clientVars>>

(* Channel.bulkWrite of batch b rejects with nothing written.  The first    *)
(* rejection ends syncPlaylist and runs the catch of its caller; the loop   *)
(* of updateChannelsBulk writes no further batch.                           *)
BatchFailed(k, b) ==
    /\ b \in Writable(k)
    /\ sy' = [sy EXCEPT ![k] = Ended([@ EXCEPT
                   !.pending = IF sy[k].svc = "fast" THEN @ \ {b} ELSE {},
                   !.rejected = TRUE,
                   !.pc = "error"])]
    /\ playlist' = IF sy[k].rejected THEN playlist
                   ELSE MarkError(playlist, "bulkWrite")
    /\ UNCHANGED <<store, lastDone, proxyVars, singleVars, tokenVars, clientVars>>

(* fastChannelSyncService.js:443-447; channelSyncService.js:127-142 *)
DeleteStale(k) ==
    /\ sy[k].pc = "delete"
    /\ store' = DeleteNotIn(store, ChannelIds(sy[k].channels))
    /\ sy' = [sy EXCEPT ![k].pc = IF sy[k].svc = "classic" /\ sy[k].pending # {}
                                  THEN "save" ELSE "finish"]
    /\ UNCHANGED <<playlist, lastDone, proxyVars, singleVars, tokenVars, clientVars>>

(* fastChannelSyncService.js:69-80; channelSyncService.js:89-101, which     *)
(* leaves the error field as it is                                          *)
SyncFinish(k) ==
    /\ sy[k].pc = "finish"
    /\ playlist' = [playlist EXCEPT
                      !.status = "active",
                      !.channelCount = Len(sy[k].channels),
                      !.error = IF sy[k].svc = "fast" THEN NoError ELSE @]
    /\ sy' = [sy EXCEPT ![k] = Ended([@ EXCEPT !.pc = "done"])]
    /\ lastDone' = [set |-> TRUE, raw |-> sy[k].raw, oneShot |-> sy[k].oneShot,
                    result |-> store]
    /\ UNCHANGED <<store, proxyVars, singleVars, tokenVars, clientVars>>

SyncStep ==
    \/ \E type \in Types : CreatePlaylist(type)
    \/ \E c \in SettingIds, s \in SettingValues : UpdateChannelVisibility(c, s)
    \/ \E svc \in {"fast", "classic"} : SyncStart(svc)
    \/ \E k \in Syncs, list \in SourceLists, oneShot \in BOOLEAN :
          \E rnd \in [1..Len(list) -> RandIds] : SyncFetched(k, list, oneShot, rnd)
    \/ \E k \in Syncs : SyncFetchFailed(k)
    \/ \E k \in Syncs, b \in 1..MaxSrc : WriteBatch(k, b)
    \/ \E k \in Syncs, b \in 1..MaxSrc : BatchFailed(k, b)
    \/ \E k \in Syncs : DeleteStale(k)
    \/ \E k \in Syncs : SyncFinish(k)

----------------------------------------------------------------------------
(* Portal path discovery and handshake: doHandshake of channels.js          *)
(* (client "single"), the handshake loop of _syncMAG (client "fast") and    *)
(* handshake / handshakeAlternative of MagStalkerService (client            *)
(* "service").  A portal is what each candidate path answers to the         *)
(* handshake request; paths are numbered in the order of the client's list. *)
Paths == 1..MaxPaths

(* error: network error, timeout or status >= 500; status4xx: a 4xx status  *)
(* with no token in the body; empty: status 200, no token in the body;      *)
(* token: status 200 with js.token; tokenTop: status 200 with a top-level   *)
(* token; token4xx: a 4xx status whose body has js.token                    *)
Replies == {"error", "status4xx", "empty", "token", "tokenTop", "token4xx"}

Portals == [Paths -> Replies]

Clients == {"single", "fast", "service"}

PortalToken == "abc"
NullToken == "null"
NoTokenRequired == "no_token_required"

(* channels.js:152 API_PATHS[0]; fastChannelSyncService.js:243 apiPaths[0]; *)
(* magStalkerService.js:54 currentApiPath, the first of apiPaths            *)
DefaultPath == 1

(* The token a client ends with when no path gave one (channels.js:152,     *)
(* fastChannelSyncService.js:244, magStalkerService.js:318, 367)            *)
Tokenless(client) == IF client = "service" THEN NoTokenRequired ELSE NullToken

(* axios rejects: always for error, and for a 4xx status unless             *)
(* validateStatus: s => s < 500 is given (channels.js:136,                  *)
(* fastChannelSyncService.js:271; not in magStalkerService.js:299-303,      *)
(* 346-350)                                                                 *)
Rejects(client, reply) ==
    \/ reply = "error"
    \/ client = "service" /\ reply \in {"status4xx", "token4xx"}

(* The reply is taken as the handshake's answer: channels.js:138-145 (status *)
(* 200 and js.token ?? token), fastChannelSyncService.js:273-280 (js.token   *)
(* ?? token), magStalkerService.js:310-317 on the current path (js.token,    *)
(* else token) and 354-359 on an alternative path (js.token only)            *)
Accepts(client, path, reply) ==
    /\ ~Rejects(client, reply)
    /\ CASE client = "single"  -> reply \in {"token", "tokenTop"}
         [] client = "fast"    -> reply \in {"token", "tokenTop", "token4xx"}
         [] OTHER              -> \/ reply = "token"
                                  \/ reply = "tokenTop" /\ path = DefaultPath

(* magStalkerService.js:318-321: the current path answers without a token   *)
(* and the handshake ends there                                             *)
SettlesTokenless(client, path, reply) ==
    /\ client = "service"
    /\ path = DefaultPath
    /\ ~Rejects(client, reply)
    /\ ~Accepts(client, path, reply)

NoHandshake == [client |-> "none", portal |-> [p \in {} |-> ""], pc |-> "idle",
                next |-> 0, apiPath |-> 0, token |-> NullToken,
                probed |-> << >>, call |-> [action |-> "", path |-> 0]]

(* The exhausted loop falls back to the last path *)
ExhaustedAtLast(r) ==
    [r EXCEPT !.pc = "done", !.apiPath = r.next, !.token = Tokenless(r.client)]

(* channels.js:151-152, fastChannelSyncService.js:243-244, 284,             *)
(* magStalkerService.js:366-368: no path gave a token                       *)
Exhausted(r) ==
    [r EXCEPT !.pc = "done", !.apiPath = DefaultPath, !.token = Tokenless(r.client)]

(* A client begins its handshake with a portal *)
HandshakeStart(client, portal) ==
    /\ hs.pc = "idle"
    /\ hs' = [NoHandshake EXCEPT !.client = client, !.portal = portal,
                                 !.pc = "probe", !.next = 1]
    /\ UNCHANGED besideHs

(* The handshake request to the next path is answered; probed is history *)
Probe ==
    /\ hs.pc = "probe"
    /\ LET reply == hs.portal[hs.next]
           r == [hs EXCEPT !.probed = Append(@, hs.next)]
       IN  hs' = IF Accepts(hs.client, hs.next, reply)
                 THEN [r EXCEPT !.pc = "done", !.apiPath = hs.next,
                                !.token = PortalToken]
                 ELSE IF SettlesTokenless(hs.client, hs.next, reply)
                 THEN [r EXCEPT !.pc = "done", !.apiPath = hs.next,
                                !.token = NoTokenRequired]
                 ELSE IF hs.next < MaxPaths
                 THEN [r EXCEPT !.next = @ + 1]
                 ELSE Exhausted(r)
    /\ UNCHANGED besideHs

PortalActions == {"get_genres", "get_all_channels", "create_link"}

(* A call after the handshake goes to `${baseUrl}${apiPath}`                *)
(* (magStalkerService.js:498, 522, 593: this.currentApiPath;                *)
(* fastChannelSyncService.js:284; channels.js:157)                          *)
PortalCall(action) ==
    /\ hs.pc = "done"
    /\ hs' = [hs EXCEPT !.call = [action |-> action, path |-> hs.apiPath]]
    /\ UNCHANGED besideHs

HandshakeStep ==
    \/ \E client \in Clients, portal \in Portals : HandshakeStart(client, portal)
    \/ Probe
    \/ \E action \in PortalActions : PortalCall(action)

----------------------------------------------------------------------------
(* The per-genre fallback of the portal clients: one get_channels or        *)
(* get_ordered_list request per genre.  MagStalkerService.getChannelsByGenre *)
(* creates the promise of every genre first and then awaits them five at a  *)
(* time; FastChannelSyncService._syncMAG creates the promises of one slice  *)
(* of eight genres, awaits them and goes on to the next slice.              *)

GenreCounts == 0..MaxGenres

batchSize == 5

MAG_CONCURRENCY == 8

FanClients == {"service", "fast"}

ConcurrencyOf(client) == IF client = "service" THEN batchSize ELSE MAG_CONCURRENCY

NoFanOut == [client |-> "none", n |-> 0, i |-> 0, pc |-> "idle",
             inflight |-> {}, answered |-> {}]

(* genres i+1 .. i+size of n: genres.slice(i, i + size) *)
Slice(client, i, n) == {g \in 1..n : i < g /\ g <= i + ConcurrencyOf(client)}

(* the requests issued on entering the slice at i: genres.map(async ...)   *)
(* runs every callback up to its axios.get at once                          *)
Issued(client, i, n) ==
    IF client = "service"
    THEN IF i = 0 THEN 1..n ELSE {}
    ELSE Slice(client, i, n)

FanOutStart(client, n) ==
    /\ gf.pc \in {"idle", "done"}
    /\ gf' = IF n = 0
             THEN [NoFanOut EXCEPT !.client = client, !.pc = "done"]
             ELSE [NoFanOut EXCEPT !.client = client, !.n = n, !.pc = "await",
                                   !.inflight = Issued(client, 0, n)]
    /\ UNCHANGED besideGf

(* A request is answered, fails or times out: its promise resolves *)
GenreAnswer(g) ==
    /\ g \in gf.inflight
    /\ gf' = [gf EXCEPT !.inflight = @ \ {g}, !.answered = @ \cup {g}]
    /\ UNCHANGED besideGf

(* await Promise.all(batch) resumes *)
SliceDone ==
    /\ gf.pc = "await"
    /\ Slice(gf.client, gf.i, gf.n) \subseteq gf.answered
    /\ LET i == gf.i + ConcurrencyOf(gf.client) IN
       gf' = IF i >= gf.n
             THEN [gf EXCEPT !.i = i, !.pc = "done"]
             ELSE [gf EXCEPT !.i = i,
                             !.inflight = @ \cup Issued(gf.client, i, gf.n)]
    /\ UNCHANGED besideGf

FanOutStep ==
    \/ \E client \in FanClients, n \in GenreCounts : FanOutStart(client, n)
    \/ \E g \in gf.inflight : GenreAnswer(g)
    \/ SliceDone

----------------------------------------------------------------------------
(* The streaming M3U parser of FastChannelSyncService._syncM3U.  The       *)
(* playlist is a sequence of bytes that arrives in chunks of any size.     *)
(* "I" stands for the bytes of `#EXTINF:-1,', "J" for the bytes of          *)
(* `#EXTINF:-1 tvg-id="1" group-title="News",', "#" for a hash, "n" for a  *)
(* newline, "a" for an ASCII letter, and "m1" "m2" are the two bytes of    *)
(* one character outside ASCII.                                             *)

Bytes == {"I", "J", "#", "n", "a", "m1", "m2"}

(* the byte sequences that are well-formed UTF-8 *)
WellFormed(t) ==
    /\ \A j \in 1..Len(t) : t[j] = "m1" => j < Len(t) /\ t[j + 1] = "m2"
    /\ \A j \in 1..Len(t) : t[j] = "m2" => j > 1 /\ t[j - 1] = "m1"

Texts == {t \in UNION {[1..k -> Bytes] : k \in 0..MaxText} : WellFormed(t)}

(* chunk.toString('utf8'): a complete sequence decodes to its character,   *)
(* every byte of an incomplete one to U+FFFD, written "?"                   *)
RECURSIVE Utf8ToString(_)
Utf8ToString(bytes) ==
    IF bytes = << >> THEN << >>
    ELSE IF bytes[1] = "m1" /\ Len(bytes) >= 2 /\ bytes[2] = "m2"
         THEN <<"m">> \o Utf8ToString(SubSeq(bytes, 3, Len(bytes)))
    ELSE IF bytes[1] \in {"m1", "m2"}
         THEN <<"?">> \o Utf8ToString(Tail(bytes))
    ELSE <<bytes[1]>> \o Utf8ToString(Tail(bytes))

NoMeta == [set |-> FALSE, channelId |-> << >>, name |-> << >>, group |-> ""]

(* fastChannelSyncService.js:157-180 *)
parseExtInfLine(line) ==
    LET name == Tail(line)
        tvgId == IF line[1] = "J" THEN <<"1">> ELSE << >>
    IN  [set |-> TRUE,
         channelId |-> IF tvgId # << >> THEN tvgId ELSE name,
         name |-> name,
         group |-> IF line[1] = "J" THEN "News" ELSE "Uncategorized"]

IsExtInf(line) == line # << >> /\ line[1] \in {"I", "J"}

IsComment(line) == line # << >> /\ line[1] \in {"I", "J", "#"}

(* fastChannelSyncService.js:121-124, 141-143 *)
PushChannel(st, line) ==
    [st EXCEPT
       !.channels = Append(@,
           [channelId |-> IF st.currentMeta.channelId # << >>
                          THEN st.currentMeta.channelId
                          ELSE <<M3uId(Len(st.channels))>>,
            name |-> st.currentMeta.name,
            group |-> st.currentMeta.group,
            url |-> line]),
       !.currentMeta = NoMeta]

(* fastChannelSyncService.js:119-125 *)
TakeLine(st, line) ==
    IF IsExtInf(line) THEN [st EXCEPT !.currentMeta = parseExtInfLine(line)]
    ELSE IF line # << >> /\ ~IsComment(line) /\ st.currentMeta.set
         THEN PushChannel(st, line)
    ELSE st

(* fastChannelSyncService.js:114-133 *)
RECURSIVE ProcessLines(_)
ProcessLines(st) ==
    LET newlines == {j \in 1..Len(st.lineBuffer) : st.lineBuffer[j] = "n"} IN
    IF newlines = {} THEN st
    ELSE LET newlineIdx == Min(newlines)
             line == SubSeq(st.lineBuffer, 1, newlineIdx - 1)
             rest == SubSeq(st.lineBuffer, newlineIdx + 1, Len(st.lineBuffer))
         IN  ProcessLines(TakeLine([st EXCEPT !.lineBuffer = rest], line))

(* res.on('data') *)
OnData(st, chunk) ==
    ProcessLines([st EXCEPT !.lineBuffer = @ \o Utf8ToString(chunk)])

(* res.on('end'); the end handler leaves currentMeta as it is *)
OnEnd(st) ==
    IF st.lineBuffer # << >> /\ st.currentMeta.set
    THEN [PushChannel(st, st.lineBuffer) EXCEPT !.currentMeta = st.currentMeta]
    ELSE st

NoParse == [lineBuffer |-> << >>, currentMeta |-> NoMeta, channels |-> << >>]

NoDownload == [pc |-> "idle", text |-> << >>, pos |-> 0, chunks |-> 0, st |-> NoParse]

M3uStart(text) ==
    /\ m3.pc = "idle"
    /\ m3' = [NoDownload EXCEPT !.pc = "data", !.text = text]
    /\ UNCHANGED besideM3

M3uData(k) ==
    /\ m3.pc = "data"
    /\ m3.pos + k <= Len(m3.text)
    /\ m3' = [m3 EXCEPT !.pos = @ + k, !.chunks = @ + 1,
                        !.st = OnData(@, SubSeq(m3.text, m3.pos + 1, m3.pos + k))]
    /\ UNCHANGED besideM3

M3uEnd ==
    /\ m3.pc = "data"
    /\ m3.pos = Len(m3.text)
    /\ m3' = [m3 EXCEPT !.pc = "end", !.st = OnEnd(@)]
    /\ UNCHANGED besideM3

M3uStep ==
    \/ \E text \in Texts : M3uStart(text)
    \/ \E k \in 1..MaxText : M3uData(k)
    \/ M3uEnd

----------------------------------------------------------------------------
(* The upstream attempts of the proxy route that retries (unnamed/part_000): *)
(* attemptFetch on the requested URL and, in the catch block, on the         *)
(* alternate `/live/...' form.                                               *)

(* what the upstream does with an attempt: an HTTP status, or no response   *)
(* and an error code                                                        *)
HttpStatuses == {200, 206, 401, 403, 404, 500, 503}

ErrorCodes == {"ECONNRESET", "ETIMEDOUT"}

NoOutcome == [status |-> 0, code |-> ""]

UpstreamOutcomes ==
    {[status |-> n, code |-> ""] : n \in HttpStatuses}
       \cup {[status |-> 0, code |-> c] : c \in ErrorCodes}

StreamTypes == {"xtream", "mag"}

(* the requested URL: host/user/pass/8, host/user/pass/8.ts,                 *)
(* host/live/user/pass/8.ts, or anything else                                *)
UrlForms == {"plain", "plainTs", "live", "other"}

(* part_000:37-47: axios rejects unless validateStatus(status) holds         *)
AttemptRejects(outcome) == outcome.code # "" \/ outcome.status >= 500

(* err.response?.status of a rejected attempt *)
ErrStatus(outcome) == outcome.status

(* part_000:178: /^(https?:\/\/[^/]+)(\/[^/]+\/[^/]+\/\d+)(\.ts)?$/           *)
PathMatch(form) == form \in {"plain", "plainTs"}

(* part_000:176-179 *)
TriesAlternate(type, form, outcome) ==
    type = "xtream" /\ ErrStatus(outcome) = 404 /\ PathMatch(form)

(* part_000:253-268 *)
ProxyErrorStatus(outcome) ==
    CASE ErrStatus(outcome) = 401 -> 401
      [] ErrStatus(outcome) = 403 -> 403
      [] ErrStatus(outcome) = 404 -> 404
      [] outcome.code = "ECONNRESET" -> 502
      [] OTHER -> 500

(* part_000:223-226 *)
PipedStatus(outcome) == IF outcome.status = 206 THEN 206 ELSE 200

NoAttempts == [pc |-> "idle", type |-> "", form |-> "", attempts |-> << >>,
               first |-> NoOutcome, reply |-> 0]

ProxyFetchStart(type, form) ==
    /\ fa.pc = "idle"
    /\ fa' = [NoAttempts EXCEPT !.pc = "first", !.type = type, !.form = form]
    /\ UNCHANGED besideFa

(* One call of attemptFetch settles: the first one at part_000:173, the     *)
(* alternate one at part_000:186                                            *)
AttemptFetch(outcome) ==
    /\ fa.pc \in {"first", "alternate"}
    /\ LET target == IF fa.pc = "first" THEN "requested" ELSE "live"
           tried == [fa EXCEPT !.attempts = Append(@, target),
                               !.first = IF fa.pc = "first" THEN outcome ELSE @]
       IN  fa' = IF ~AttemptRejects(outcome)
                 THEN [tried EXCEPT !.pc = "piped", !.reply = PipedStatus(outcome)]
                 ELSE IF fa.pc = "first" /\ TriesAlternate(fa.type, fa.form, outcome)
                 THEN [tried EXCEPT !.pc = "alternate"]
                 ELSE [tried EXCEPT !.pc = "failed",
                                    !.reply = ProxyErrorStatus(tried.first)]
    /\ UNCHANGED besideFa

(* part_000:229-232: the upstream body ends *)
PipedEnd ==
    /\ fa.pc = "piped"
    /\ fa' = [fa EXCEPT !.pc = "ended"]
    /\ UNCHANGED besideFa

RetryStep ==
    \/ \E type \in StreamTypes, form \in UrlForms : ProxyFetchStart(type, form)
    \/ \E outcome \in UpstreamOutcomes : AttemptFetch(outcome)
    \/ PipedEnd

----------------------------------------------------------------------------
(* The MagStalkerService instances of one process, all for one portal.      *)
(* Each instance has the caches its constructor creates; a sync and every   *)
(* request handler construct an instance of their own.                      *)

(* the channels the portal lists with a token or a url *)
SecretLists == SUBSET TokenChannels

(* magStalkerService.js:21-28 *)
NewService == [tokenCache |-> {}, channelsCache |-> {}, cached |-> FALSE,
               fresh |-> FALSE]

NoLookup == [handler |-> "none", channelId |-> "", cachedBefore |-> FALSE,
             found |-> FALSE, fromCache |-> FALSE, bootstrap |-> FALSE]

NoServices == [instances |-> << >>, lookup |-> NoLookup]

(* magStalkerService.js:783-842: syncAll fills both caches of its instance *)
Synced(inst, list) ==
    [tokenCache |-> inst.tokenCache \cup list, channelsCache |-> list,
     cached |-> TRUE, fresh |-> TRUE]

(* some instance of the process holds a live cache entry of the channel *)
CachedInProcess(c) ==
    \E j \in 1..Len(sv.instances) :
        sv.instances[j].fresh /\ c \in sv.instances[j].tokenCache

(* magStalkerService.js:181-225 on one instance *)
TokenOf(inst, c) ==
    \/ inst.fresh /\ c \in inst.tokenCache
    \/ inst.cached /\ c \in inst.channelsCache

(* magStalkerService.js:847-875 on one instance *)
ChannelDataCached(inst, c) == inst.cached /\ inst.fresh /\ c \in inst.channelsCache

(* channelSyncService.js:53, playlists.js:49, 127: a sync constructs a      *)
(* service and runs syncAll                                                 *)
ServiceSync(list) ==
    /\ Len(sv.instances) < MaxInst
    /\ sv' = [sv EXCEPT !.instances = Append(@, Synced(NewService, list))]
    /\ UNCHANGED besideSv

(* channels.js:272-312: POST /channel-switch *)
ChannelSwitch(c) ==
    /\ Len(sv.instances) < MaxInst
    /\ LET service == NewService
           found == TokenOf(service, c)
       IN  sv' = [instances |-> Append(sv.instances, service),
                  lookup |-> [handler |-> "channel-switch", channelId |-> c,
                              cachedBefore |-> CachedInProcess(c),
                              found |-> found, fromCache |-> found,
                              bootstrap |-> FALSE]]
    /\ UNCHANGED besideSv

(* channels.js:489-506: POST /get-stream *)
GetStream(c, list) ==
    /\ Len(sv.instances) < MaxInst
    /\ LET service == NewService
           hit == ChannelDataCached(service, c)
       IN  sv' = [instances |-> Append(sv.instances,
                                      IF hit THEN service ELSE Synced(service, list)),
                  lookup |-> [handler |-> "get-stream", channelId |-> c,
                              cachedBefore |-> CachedInProcess(c),
                              found |-> hit \/ c \in list, fromCache |-> hit,
                              bootstrap |-> ~hit]]
    /\ UNCHANGED besideSv

(* ten minutes pass: every entry cached so far is past its TTL *)
TtlPasses ==
    /\ \E j \in 1..Len(sv.instances) : sv.instances[j].fresh
    /\ sv' = [sv EXCEPT !.instances =
                 [j \in 1..Len(sv.instances) |-> [sv.instances[j] EXCEPT !.fresh = FALSE]]]
    /\ UNCHANGED besideSv

ServiceStep ==
    \/ \E list \in SecretLists : ServiceSync(list)
    \/ \E c \in TokenChannels : ChannelSwitch(c)
    \/ \E c \in TokenChannels, list \in SecretLists : GetStream(c, list)
    \/ TtlPasses

----------------------------------------------------------------------------
(* The background re-sync timers.  A chain is a function that runs a sync   *)
(* and then re-arms its own 10-minute timer: syncLoop of                    *)
(* MagStalkerService._runBackgroundSync, started by the constructor of the  *)
(* first instance of the process, and runResync of                          *)
(* scheduleBackgroundResync, registered by customer-force-sync.             *)

PortalPlaylists == {"p1", "p2"}

NoPlaylistId == "null"

(* magStalkerSyncRunning: global.magStalkerSyncRunning (undefined = false); *)
(* scheduledResyncs: playlists.js:39; chains: the live timer loops          *)
NoBackground == [magStalkerSyncRunning |-> FALSE, scheduledResyncs |-> {},
                 chains |-> {}]

(* a chain of `origin' that syncs the portal of playlist pl and saves under *)
(* playlistId (NoPlaylistId: it saves nothing)                              *)
Chain(origin, pl, playlistId, pc) ==
    [origin |-> origin, playlist |-> pl, playlistId |-> playlistId, pc |-> pc,
     runs |-> 0, last |-> "none"]

(* magStalkerService.js:56-71, 74-127: the constructor starts syncLoop, at  *)
(* once, in the first instance only                                         *)
Constructed(b, pl, playlistId) ==
    IF b.magStalkerSyncRunning THEN b
    ELSE [b EXCEPT !.magStalkerSyncRunning = TRUE,
                   !.chains = @ \cup {Chain("service", pl, playlistId, "running")}]

(* playlists.js:41-63; the first run comes after ten minutes *)
scheduleBackgroundResync(b, pl) ==
    IF pl \in b.scheduledResyncs THEN b
    ELSE [b EXCEPT !.scheduledResyncs = @ \cup {pl},
                   !.chains = @ \cup {Chain("route", pl, pl, "armed")}]

(* playlists.js:125-145: customer-force-sync of a portal playlist *)
ForceSync(pl) ==
    /\ bg' = scheduleBackgroundResync(Constructed(bg, pl, pl), pl)
    /\ UNCHANGED besideBg

(* channels.js:282, 494; channelSyncService.js:53: a service constructed    *)
(* without a playlistId                                                     *)
ConstructService(pl) ==
    /\ bg' = Constructed(bg, pl, NoPlaylistId)
    /\ UNCHANGED besideBg

(* the 10-minute timer of a chain fires *)
ChainFire(ch) ==
    /\ ch \in bg.chains
    /\ ch.pc = "armed"
    /\ ch.runs < MaxRuns
    /\ bg' = [bg EXCEPT !.chains = (@ \ {ch}) \cup {[ch EXCEPT !.pc = "running"]}]
    /\ UNCHANGED besideBg

(* a run ends, well or not, and re-arms the timer: magStalkerService.js:    *)
(* 119-124, playlists.js:55-58                                              *)
ChainRunEnd(ch, result) ==
    /\ ch \in bg.chains
    /\ ch.pc = "running"
    /\ bg' = [bg EXCEPT !.chains =
                 (@ \ {ch}) \cup {[ch EXCEPT !.pc = "armed", !.runs = @ + 1,
                                             !.last = result]}]
    /\ UNCHANGED besideBg

BackgroundStep ==
    \/ \E pl \in PortalPlaylists : ForceSync(pl)
    \/ \E pl \in PortalPlaylists : ConstructService(pl)
    \/ \E ch \in bg.chains : ChainFire(ch)
    \/ \E ch \in bg.chains, result \in {"ok", "failed"} : ChainRunEnd(ch, result)

----------------------------------------------------------------------------
(* The optional steps of MagStalkerService.syncAll: getAccountInfo and      *)
(* getProfile, then the channel list, then the result object.               *)

(* What a request of getAccountInfo / getProfile ends with: no response, or *)
(* response.data as axios delivers it: a JSON object with or without js,    *)
(* JSON null, or a string that is a wrapped object `f({...});', text        *)
(* without JSON, or empty                                                   *)
NoResponse == {"network error", "timeout"}

Bodies == {"object", "objectNoJs", "null", "wrapped", "text", "empty"}

InfoReplies == NoResponse \cup Bodies

(* parsed values: Null, or an object given by its js member *)
Null == [null |-> TRUE, js |-> "undefined"]

Obj(js) == [null |-> FALSE, js |-> js]

(* magStalkerService.js:952-982 *)
parseResponse(data) ==
    CASE data = "object" -> Obj("info")
      [] data = "objectNoJs" -> Obj("undefined")
      [] data = "null" -> Null
      [] data = "wrapped" -> Obj("info")
      [] data = "text" -> Obj("text")
      [] OTHER -> Obj("")

(* magStalkerService.js:374-395 *)
getAccountInfo(reply) ==
    IF reply \in NoResponse THEN Obj("offline") ELSE parseResponse(reply)

(* magStalkerService.js:400-454 *)
getProfile(reply) ==
    IF reply \in NoResponse THEN Null ELSE parseResponse(reply)

Falsy(js) == js \in {"undefined", ""}

(* magStalkerService.js:827-841: the result object, or what the catch       *)
(* returns when building it throws                                          *)
SyncAllResult(accountInfo, profile, channels) ==
    IF accountInfo.null
    THEN [accountInfo |-> "error", profile |-> "null", channels |-> {}]
    ELSE [accountInfo |-> IF Falsy(accountInfo.js) THEN "ok" ELSE accountInfo.js,
          profile |-> IF profile.null \/ Falsy(profile.js) THEN "null" ELSE profile.js,
          channels |-> channels]

NoSyncAll == [pc |-> "idle", account |-> "", profileReply |-> "",
              accountInfo |-> Null, profile |-> Null, channels |-> {},
              result |-> [accountInfo |-> "", profile |-> "", channels |-> {}]]

SyncAllStart ==
    /\ sa.pc = "idle"
    /\ sa' = [NoSyncAll EXCEPT !.pc = "account"]
    /\ UNCHANGED besideSa

AccountInfoEnds(reply) ==
    /\ sa.pc = "account"
    /\ sa' = [sa EXCEPT !.pc = "profile", !.account = reply,
                        !.accountInfo = getAccountInfo(reply)]
    /\ UNCHANGED besideSa

ProfileEnds(reply) ==
    /\ sa.pc = "profile"
    /\ sa' = [sa EXCEPT !.pc = "channels", !.profileReply = reply,
                        !.profile = getProfile(reply)]
    /\ UNCHANGED besideSa

(* getGenres and getAllChannels end; syncAll returns *)
SyncAllReturns(list) ==
    /\ sa.pc = "channels"
    /\ sa' = [sa EXCEPT !.pc = "returned", !.channels = list,
                        !.result = SyncAllResult(sa.accountInfo, sa.profile, list)]
    /\ UNCHANGED besideSa

SyncAllStep ==
    \/ SyncAllStart
    \/ \E reply \in InfoReplies : AccountInfoEnds(reply)
    \/ \E reply \in InfoReplies : ProfileEnds(reply)
    \/ \E list \in SecretLists : SyncAllReturns(list)

----------------------------------------------------------------------------
(* The progress events of the fast-sync route for one playlist: POST        *)
(* /:playlistId/start resets syncProgress and runs syncPlaylist in the      *)
(* background; every _progress call of the service and the two terminal     *)
(* broadcasts of the route overwrite syncProgress, which GET                *)
(* /:playlistId/status returns.                                             *)

IdleProgress == [run |-> 0, stage |-> "idle", done |-> FALSE, error |-> FALSE]

(* a run: where syncPlaylist is, its bulkWrite batches in flight, and as    *)
(* history the terminal events published for it and whether a non-terminal  *)
(* event followed one                                                       *)
NewRun == [pc |-> "queued", pending |-> {}, terminal |-> 0, late |-> FALSE]

NoProgress == [runs |-> << >>, syncProgress |-> IdleProgress]

Event(k, stage, done, error) ==
    [run |-> k, stage |-> stage, done |-> done, error |-> error]

(* fastSync.js:19-32 broadcastProgress *)
broadcastProgress(p, k, stage, done, error) ==
    [p EXCEPT !.syncProgress = Event(k, stage, done, error),
              !.runs[k].terminal = IF done THEN @ + 1 ELSE @,
              !.runs[k].late = @ \/ (~done /\ p.runs[k].terminal > 0)]

(* fastSync.js:97-99: the progress callback *)
onProgress(p, k, stage) == broadcastProgress(p, k, stage, FALSE, FALSE)

(* fastSync.js:111-119: the catch of the background task *)
SyncFailedEvent(p, k) ==
    broadcastProgress([p EXCEPT !.runs[k].pc = "ended"], k, "error", TRUE, TRUE)

(* fastSync.js:83-92: POST /:playlistId/start *)
StartFastSync ==
    /\ Len(pg.runs) < MaxStart
    /\ pg' = [runs |-> Append(pg.runs, NewRun),
              syncProgress |-> Event(Len(pg.runs) + 1, "init", FALSE, FALSE)]
    /\ UNCHANGED besidePg

(* fastSync.js:94-102, fastChannelSyncService.js:40-47: the background task *)
(* starts syncPlaylist                                                      *)
RunBegins(k) ==
    /\ pg.runs[k].pc = "queued"
    /\ pg' = onProgress([pg EXCEPT !.runs[k].pc = "fetch"], k, "init")
    /\ UNCHANGED besidePg

(* fastChannelSyncService.js:49-66, 408-415: the list is fetched and comes  *)
(* in n batches, all written in parallel                                    *)
FetchDone(k, n) ==
    /\ pg.runs[k].pc = "fetch"
    /\ pg' = onProgress([pg EXCEPT !.runs[k].pc = IF n = 0 THEN "finish" ELSE "save",
                                   !.runs[k].pending = 1..n], k, "saving")
    /\ UNCHANGED besidePg

(* the playlist is missing or the fetch rejects *)
FetchRejects(k) ==
    /\ pg.runs[k].pc = "fetch"
    /\ pg' = SyncFailedEvent(pg, k)
    /\ UNCHANGED besidePg

(* fastChannelSyncService.js:434-439: bulkWrite of a batch commits and the  *)
(* batch reports its progress                                               *)
BatchCommits(k, b) ==
    /\ b \in pg.runs[k].pending
    /\ pg' = onProgress([pg EXCEPT
                 !.runs[k].pending = @ \ {b},
                 !.runs[k].pc = IF @ = "save" /\ pg.runs[k].pending = {b}
                                THEN "finish" ELSE @], k, "saving")
    /\ UNCHANGED besidePg

(* bulkWrite of a batch rejects: the first rejection rejects Promise.all    *)
(* and syncPlaylist                                                         *)
BatchRejects(k, b) ==
    /\ b \in pg.runs[k].pending
    /\ LET p == [pg EXCEPT !.runs[k].pending = @ \ {b}] IN
       pg' = IF pg.runs[k].pc = "save" THEN SyncFailedEvent(p, k) ELSE p
    /\ UNCHANGED besidePg

(* fastChannelSyncService.js:443-447, 69-80; fastSync.js:102-110 *)
RunCompletes(k, ok) ==
    /\ pg.runs[k].pc = "finish"
    /\ pg' = IF ok
             THEN broadcastProgress(
                     onProgress([pg EXCEPT !.runs[k].pc = "ended"], k, "complete"),
                     k, "complete", TRUE, FALSE)
             ELSE SyncFailedEvent(pg, k)
    /\ UNCHANGED besidePg

ProgressStep ==
    \/ StartFastSync
    \/ \E k \in DOMAIN pg.runs : RunBegins(k)
    \/ \E k \in DOMAIN pg.runs, n \in 0..MaxBatches : FetchDone(k, n)
    \/ \E k \in DOMAIN pg.runs : FetchRejects(k)
    \/ \E k \in DOMAIN pg.runs, b \in 1..MaxBatches : BatchCommits(k, b)
    \/ \E k \in DOMAIN pg.runs, b \in 1..MaxBatches : BatchRejects(k, b)
    \/ \E k \in DOMAIN pg.runs, ok \in BOOLEAN : RunCompletes(k, ok)

----------------------------------------------------------------------------
(* POST /channels/release-stream (channels.js:552-603).  The handshake and *)
(* the portal's release call (channels.js:567-572, 187-218) touch no state *)
(* of this process and are part of the wait before the proxy kill.         *)

ReleaseInputs ==
    { [playlistId |-> "p1", channelId |-> "7"],
      [playlistId |-> "p2", channelId |-> "7"],
      [playlistId |-> "px", channelId |-> "8"],
      [playlistId |-> "p0", channelId |-> "7"] }

(* cleared is history: the link-cache entries the release removed *)
NoRelease == [pc |-> "idle", in |-> [playlistId |-> "", channelId |-> ""],
              success |-> FALSE, cleared |-> {}]

outsideRelease == <<fetchingUrls, guardTimers, recent, sq, tokenVars, syncVars,
                    hs, gf, m3, fa, sv, bg, sa, pg>>

(* channels.js:553-563, 597: the playlist is looked up; an unknown or      *)
(* non-portal playlist is answered at once                                 *)
ReleaseStart(in) ==
    /\ rl.pc = "idle"
    /\ rl' = IF /\ in.playlistId \in DOMAIN Playlists
                /\ Playlists[in.playlistId].type = "mag"
             THEN [rl EXCEPT !.pc = "kill", !.in = in]
             ELSE [rl EXCEPT !.pc = "done", !.in = in, !.success = TRUE]
    /\ UNCHANGED <<activeConnections, rq, killResp, linkCache, sessionMap,
                   outsideRelease>>

(* channels.js:578-586: axios.delete of the proxy route; reached: whether  *)
(* the DELETE handler (app.js:71-81) ran before the 3 s timeout            *)
ReleaseKill(reached) ==
    /\ rl.pc = "kill"
    /\ LET mac == Playlists[rl.in.playlistId].macAddress
           k == killStream(mac, rl.in.channelId)
       IN IF reached
          THEN /\ activeConnections' = k.conns
               /\ rq' = MarkKilled(k.rq, mac, rl.in.channelId)
               /\ killResp' = [mac |-> mac, channelId |-> rl.in.channelId,
                               success |-> k.killed,
                               message |-> IF k.killed THEN "Stream terminated"
                                           ELSE "Stream not found"]
          ELSE UNCHANGED <<activeConnections, rq, killResp>>
    /\ rl' = [rl EXCEPT !.pc = "clear"]
    /\ UNCHANGED <<linkCache, sessionMap, outsideRelease>>

(* A release that drops only the cached links of its own device *)
ReleaseClearOwn ==
    /\ rl.pc = "clear"
    /\ LET mac == Playlists[rl.in.playlistId].macAddress
           own == {c \in DOMAIN linkCache : linkCache[c].url.mac = mac}
       IN /\ sessionMap' = IF mac # "" THEN MapDelete(sessionMap, mac) ELSE sessionMap
          /\ linkCache' = [c \in DOMAIN linkCache \ own |-> linkCache[c]]
          /\ rl' = [rl EXCEPT !.pc = "done", !.success = TRUE, !.cleared = own]
    /\ UNCHANGED <<activeConnections, rq, killResp, outsideRelease>>

(* channels.js:588-597: sessionMap.delete(mac); linkCache.clear(); answer  *)
ReleaseClear ==
    /\ rl.pc = "clear"
    /\ LET mac == Playlists[rl.in.playlistId].macAddress
       IN /\ sessionMap' = IF mac # "" THEN MapDelete(sessionMap, mac) ELSE sessionMap
          /\ linkCache' = EmptyMap
          /\ rl' = [rl EXCEPT !.pc = "done", !.success = TRUE,
                              !.cleared = DOMAIN linkCache]
    /\ UNCHANGED <<activeConnections, rq, killResp, outsideRelease>>

ReleaseStep ==
    \/ \E in \in ReleaseInputs : ReleaseStart(in)
    \/ \E reached \in BOOLEAN : ReleaseKill(reached)
    \/ ReleaseClear

----------------------------------------------------------------------------
(* The clock.  Tick(d, cap) lets min(d, time to the next timer) pass:      *)
(* timers count down, ages grow and saturate at cap.                       *)

Settling == {i \in Reqs : rq[i].pc = "settle"}

TimersLeft == {t.left : t \in guardTimers} \cup {rq[i].left : i \in Settling}

Older(age, step, cap) == IF age + step > cap THEN cap ELSE age + step

Tick(d, cap) ==
    LET step == Min({d} \cup TimersLeft) IN
    /\ step > 0
    /\ guardTimers' = {[t EXCEPT !.left = @ - step] : t \in guardTimers}
    /\ rq' = [i \in Reqs |->
                IF i \in Settling
                THEN [rq[i] EXCEPT !.left = @ - step, !.waited = @ + step]
                ELSE rq[i]]
    /\ recent' = LET kept == {k \in DOMAIN recent : recent[k] + step < GuardMs}
                 IN [k \in kept |-> recent[k] + step]
    /\ activeConnections' =
          [k \in DOMAIN activeConnections |->
             [activeConnections[k] EXCEPT !.age = Older(@, step, cap)]]
    /\ linkCache' = [c \in DOMAIN linkCache |->
                       [linkCache[c] EXCEPT !.age = Older(@, step, cap)]]
    /\ sessionMap' = [m \in DOMAIN sessionMap |->
                        [sessionMap[m] EXCEPT !.age = Older(@, step, cap)]]
    /\ tokenCache' = [c \in DOMAIN tokenCache |->
                        [tokenCache[c] EXCEPT !.age = Older(@, step, cap),
                                              !.born = Older(@, step, cap)]]
    /\ channelsCache' = IF channelsCache.set
                        THEN [channelsCache EXCEPT !.age = Older(@, step, cap)]
                        ELSE channelsCache
    /\ UNCHANGED <<fetchingUrls, killResp, sq, tq, syncVars, clientVars>>

----------------------------------------------------------------------------

Init ==
    /\ activeConnections = EmptyMap
    /\ fetchingUrls = {}
    /\ guardTimers = {}
    /\ rq = << >>
    /\ killResp = [mac |-> "", channelId |-> "", success |-> FALSE, message |-> ""]
    /\ recent = EmptyMap
    /\ linkCache = EmptyMap
    /\ sessionMap = EmptyMap
    /\ sq = << >>
    /\ tokenCache = EmptyMap
    /\ channelsCache = NoCache
    /\ tq = << >>
    /\ store = EmptyBag
    /\ playlist = NoPlaylist
    /\ sy = << >>
    /\ lastDone = NoneDone
    /\ hs = NoHandshake
    /\ gf = NoFanOut
    /\ m3 = NoDownload
    /\ fa = NoAttempts
    /\ sv = NoServices
    /\ bg = NoBackground
    /\ sa = NoSyncAll
    /\ pg = NoProgress
    /\ rl = NoRelease

ProxyStep ==
    \/ \E i \in 1..MaxReq, q \in Queries : Arrive(i, q)
    \/ \E i \in Reqs : Settle(i)
    \/ \E i \in Reqs : FetchResolve(i)
    \/ \E i \in Reqs : FetchFail(i)
    \/ \E i \in Reqs : StreamEnd(i)
    \/ \E i \in Reqs, sent \in BOOLEAN : StreamError(i, sent)
    \/ \E t \in guardTimers : GuardTimeout(t)
    \/ \E p \in KillParams : Kill(p[1], p[2])

(* The gateway at the scale of its timers; stored ages are not tracked *)
Next ==
    \/ ProxyStep
    \/ \E d \in FineSteps : Tick(d, 0)

Spec == Init /\ [][Next]_vars

(* The gateway at the scale of minutes *)
NextAge ==
    \/ ProxyStep
    \/ \E d \in CoarseSteps : Tick(d, ReapAgeMs + 2 * ReapPeriodMs)

SpecAge == Init /\ [][NextAge]_vars

(* The gateway with viewers that disconnect.  The event loop fires every   *)
(* due timer and axios settles every fetch (timeout: 30000, app.js:165);   *)
(* nothing obliges an upstream to end or fail, a client to send a DELETE   *)
(* or a new request to arrive.                                             *)
NextLive ==
    \/ NextAge
    \/ \E i \in Reqs : ViewerClose(i)

TimersFire ==
    \/ \E d \in CoarseSteps : Tick(d, ReapAgeMs + 2 * ReapPeriodMs)
    \/ \E i \in Reqs : Settle(i)
    \/ \E t \in guardTimers : GuardTimeout(t)

FetchSettles == \E i \in Reqs : FetchResolve(i) \/ FetchFail(i)

SpecLive == Init /\ [][NextLive]_vars /\ WF_vars(TimersFire) /\ WF_vars(FetchSettles)

(* The resolver at the scale of minutes *)
NextSingle ==
    \/ SingleStep
    \/ \E d \in CoarseSteps : Tick(d, SessionTtlMs + 60000)

SpecSingle == Init /\ [][NextSingle]_vars

(* The resolver and the release route *)
NextRelease ==
    \/ NextSingle
    \/ ReleaseStep

SpecRelease == Init /\ [][NextRelease]_vars

(* The token cache at the scale of minutes *)
NextToken ==
    \/ TokenStep
    \/ \E d \in CoarseSteps : Tick(d, TokenTtlMs + 60000)

SpecToken == Init /\ [][NextToken]_vars

(* The sync engine *)
NextSync == SyncStep

SpecSync == Init /\ [][NextSync]_vars

(* The portal clients *)
NextClient == HandshakeStep

SpecClient == Init /\ [][NextClient]_vars

(* The per-genre fallback *)
NextFanOut == FanOutStep

SpecFanOut == Init /\ [][NextFanOut]_vars

(* The streaming M3U parser *)
NextM3u == M3uStep

SpecM3u == Init /\ [][NextM3u]_vars

(* The upstream attempts of the retrying proxy route *)
NextRetry == RetryStep

SpecRetry == Init /\ [][NextRetry]_vars

(* The service instances of one process *)
NextService == ServiceStep

SpecService == Init /\ [][NextService]_vars

(* The background re-sync timers *)
NextBackground == BackgroundStep

SpecBackground == Init /\ [][NextBackground]_vars

(* One run of syncAll *)
NextSyncAll == SyncAllStep

SpecSyncAll == Init /\ [][NextSyncAll]_vars

(* The progress events of the fast-sync route *)
NextProgress == ProgressStep

SpecProgress == Init /\ [][NextProgress]_vars

----------------------------------------------------------------------------
(* Properties of the stream proxy gateway *)

KeyOf(i) == ConnKey(rq[i].mac, rq[i].channelId)

(* C1: at any instant at most one upstream stream is open (and piped) for  *)
(* any (mac, channelId) key.                                               *)
C1_OneOpenStreamPerKey ==
    \A i, j \in Reqs :
       (i # j /\ rq[i].upstream = "open" /\ rq[j].upstream = "open")
          => KeyOf(i) # KeyOf(j)

(* C2: a request whose normalized URL key equals that of an earlier        *)
(* request that arrived less than 3 s before never opens an upstream       *)
(* connection and, once answered, has been answered 429, whatever has      *)
(* happened to the earlier request in the meantime.                        *)
C2_DuplicateRejected ==
    \A j \in Reqs :
       rq[j].dupOf # {}
          => /\ ~ rq[j].fetched
             /\ (rq[j].pc = "done" => rq[j].status = 429)

(* C3: every key in the duplicate-URL guard has a pending removal timer    *)
(* that is due within 3 s, whatever became of the request that added it;   *)
(* as the clock never passes a pending timer, the key is gone 3 s after it *)
(* was added and a later request for the URL is not answered 429.          *)
C3_GuardSelfExpires ==
    \A u \in fetchingUrls :
       \E t \in guardTimers : t.key = u /\ t.left <= GuardMs

(* The guard of a request expired while its fetch was still pending, and a *)
(* second request for the same URL was accepted.                           *)
C3_Witness ==
    \E i, j \in Reqs :
       /\ i # j
       /\ rq[i].pc = "fetch" /\ rq[j].pc = "fetch"
       /\ UrlKey(rq[i].q.url) = UrlKey(rq[j].q.url)
       /\ \A t \in guardTimers : t.id # i

SameOutside(i) ==
    /\ rq'[i].upstream = rq[i].upstream
    /\ rq'[i].resEnded = rq[i].resEnded
    /\ rq'[i].status = rq[i].status
    /\ rq'[i].pc = rq[i].pc

(* C4: a kill of a key that has no entry answers success = false and       *)
(* leaves the table, the guard and every stream and response unchanged.    *)
C4_KillAbsentIsNoOp ==
    [][ \A p \in KillParams :
          (Kill(p[1], p[2]) /\ ConnKey(p[1], p[2]) \notin DOMAIN activeConnections)
             => /\ killResp'.success = FALSE
                /\ activeConnections' = activeConnections
                /\ fetchingUrls' = fetchingUrls
                /\ guardTimers' = guardTimers
                /\ \A i \in Reqs : SameOutside(i) ]_vars

(* A kill is repeated for a key killed before, while another key streams   *)
(* and a guard entry is present.                                           *)
C4_Witness ==
    /\ killResp.success = FALSE
    /\ killResp.mac = "m1"
    /\ \E i \in Reqs : rq[i].upstream = "destroyed"
                       /\ KeyOf(i) = ConnKey(killResp.mac, killResp.channelId)
    /\ DOMAIN activeConnections # {}
    /\ fetchingUrls # {}

(* C5: a kill of a key that has an entry destroys the entry's upstream     *)
(* stream, ends its response, removes the entry and answers success = true *)
(* in the same step; the entries, streams and responses of every other key *)
(* are unchanged.                                                          *)
C5_KillRemovesEntry ==
    [][ \A p \in KillParams :
          LET key == ConnKey(p[1], p[2]) IN
          (Kill(p[1], p[2]) /\ key \in DOMAIN activeConnections)
             => /\ rq'[activeConnections[key].stream].upstream = "destroyed"
                /\ rq'[activeConnections[key].res].resEnded
                /\ key \notin DOMAIN activeConnections'
                /\ killResp'.success = TRUE
                /\ DOMAIN activeConnections' = DOMAIN activeConnections \ {key}
                /\ \A k \in DOMAIN activeConnections \ {key} :
                      /\ activeConnections'[k] = activeConnections[k]
                      /\ SameOutside(activeConnections[k].stream)
                /\ fetchingUrls' = fetchingUrls ]_vars

(* A stream was killed while a connection of another key goes on           *)
C5_Witness ==
    /\ killResp.success = TRUE
    /\ \E i \in Reqs : /\ rq[i].upstream = "destroyed"
                       /\ rq[i].resEnded
                       /\ KeyOf(i) = ConnKey(killResp.mac, killResp.channelId)
    /\ \E k \in DOMAIN activeConnections :
          /\ k # ConnKey(killResp.mac, killResp.channelId)
          /\ rq[activeConnections[k].stream].upstream = "open"

(* C6: a request that was connecting (settle delay or upstream fetch       *)
(* pending) when a kill of its key was processed never becomes an active   *)
(* connection afterwards.                                                  *)
C6_KillCancelsConnecting ==
    \A i \in Reqs :
       rq[i].killedConnecting
          => \A k \in DOMAIN activeConnections : activeConnections[k].stream # i

(* C7: no active-connection entry is older than the reaper's 5-minute      *)
(* ceiling plus one 60 s reaper period.                                    *)
C7_NoEntryBeyondCeiling ==
    \A k \in DOMAIN activeConnections :
       activeConnections[k].age <= ReapAgeMs + ReapPeriodMs

(* C8 as stated: every request that issued its upstream fetch had          *)
(* requested the kill of its key and waited the full settle delay before.  *)
C8_SettleBeforeFetch ==
    \A i \in Reqs :
       rq[i].fetched => rq[i].killRequested /\ rq[i].waited >= SettleMs

(* C8, amended: every request whose mac and channelId are both known       *)
(* (given or extracted, not 'unknown') and that issued its upstream fetch  *)
(* had requested the kill of its key and waited the full 200 ms before.    *)
C8_SettleBeforeFetchIdentified ==
    \A i \in Reqs :
       (rq[i].fetched /\ Identified(rq[i].mac, rq[i].channelId))
          => rq[i].killRequested /\ rq[i].waited >= SettleMs

(* A request killed the connection of its key, waited and then fetched     *)
C8_Witness ==
    \E i, j \in Reqs :
       /\ i # j
       /\ rq[i].fetched /\ rq[i].killRequested /\ rq[i].waited >= SettleMs
       /\ KeyOf(i) = KeyOf(j)
       /\ rq[j].upstream = "destroyed"
       /\ killResp.success = FALSE

----------------------------------------------------------------------------
(* Properties of get-stream-single *)

Completes(j) ==
    /\ j \in DOMAIN sq'
    /\ sq'[j].pc = "done"
    /\ j \in DOMAIN sq => sq[j].pc # "done"

IsPortal(in) ==
    in.playlistId \in DOMAIN Playlists /\ Playlists[in.playlistId].type = "mag"

(* C9 as stated: a request that finds the cache entry of its channel       *)
(* expired resolves a fresh URL and replaces the entry.                    *)
C9_ExpiredAlwaysReplaced ==
    [][ \A j \in 1..MaxSingle :
          (Completes(j) /\ IsPortal(sq'[j].in) /\ sq'[j].cacheAge >= LinkTtlMs)
             => /\ sq'[j].type = "mag"
                /\ linkCache'[sq'[j].in.channelId] = [url |-> sq'[j].url, age |-> 0]
      ]_vars

(* C9, amended: for a portal playlist the cached URL is returned only from *)
(* an entry younger than 5 minutes; an expired entry is never returned,    *)
(* and it is replaced by the URL built from the session password when that *)
(* URL could be built; when it could not (no password, cmd not parsable)   *)
(* the answer is a fallback URL or 502 and the cache is left unchanged.    *)
C9_CacheOnlyWhileFresh ==
    [][ \A j \in 1..MaxSingle :
          (Completes(j) /\ IsPortal(sq'[j].in))
             => LET r == sq'[j]
                    ch == r.in.channelId
                IN /\ r.type = "mag_cached"
                        => /\ r.cacheAge >= 0 /\ r.cacheAge < LinkTtlMs
                           /\ r.url = linkCache[ch].url
                           /\ linkCache' = linkCache
                   /\ r.cacheAge >= LinkTtlMs => r.type # "mag_cached"
                   /\ r.type = "mag"
                        => linkCache' = MapSet(linkCache, ch, [url |-> r.url, age |-> 0])
                   /\ r.type \notin {"mag", "mag_cached"}
                        => /\ linkCache' = linkCache
                           /\ (r.status = 502 \/ r.type = "mag_fallback")
      ]_vars

(* An expired entry was replaced by a freshly built URL                    *)
C9_Witness ==
    \E j \in Singles :
       /\ sq[j].pc = "done" /\ sq[j].type = "mag"
       /\ sq[j].cacheAge >= LinkTtlMs
       /\ linkCache[sq[j].in.channelId] = [url |-> sq[j].url, age |-> 0]

(* C10: the stored session password of a device is reused only while the  *)
(* session is younger than 10 minutes.                                     *)
C10_SessionReusedBelowTtl ==
    \A j \in Singles :
       sq[j].sessAge >= 0 => sq[j].sessAge < SessionTtlMs

----------------------------------------------------------------------------
(* Properties of the token cache *)

(* C11: getChannelToken returns a secret only when the data it is taken    *)
(* from was obtained less than 10 minutes ago, and the timestamp it        *)
(* carries is not younger than the data.                                   *)
C11_TokenOnlyWhileFresh ==
    \A k \in DOMAIN tq :
       tq[k].found => /\ tq[k].born < TokenTtlMs
                      /\ tq[k].stamp >= tq[k].born

----------------------------------------------------------------------------
(* Properties of the sync engine *)

(* The step in which syncPlaylist run k completes *)
Completing(k) == sy[k].pc = "finish" /\ sy'[k].pc = "done"

(* C12: when syncPlaylist completes for a source that yielded N channels,  *)
(* the store holds exactly N rows of the playlist, each with the channelId *)
(* and name of a channel of the source, and the playlist records           *)
(* channelCount = N.                                                       *)
C12_ExactlyNPersisted ==
    [][\A k \in Syncs : Completing(k) =>
          /\ BagCardinality(store') = Len(sy[k].channels)
          /\ \A r \in BagToSet(store') : \E i \in DOMAIN sy[k].channels :
                /\ sy[k].channels[i].channelId = r.channelId
                /\ sy[k].channels[i].name = r.name
          /\ playlist'.channelCount = Len(sy[k].channels)]_vars

(* C13: when syncPlaylist completes, no row is left whose channelId is not *)
(* in the list the sync fetched, the empty list included.                  *)
C13_NoStaleRow ==
    [][\A k \in Syncs : Completing(k) =>
          \A r \in BagToSet(store') : r.channelId \in ChannelIds(sy[k].channels)]_vars

(* C14: a sync whose upstream fetch failed does not go on to save, delete  *)
(* or complete: it ends in the error state.                                *)
C14_FetchFailureIsError ==
    \A k \in Syncs : sy[k].fetchFailed => sy[k].pc = "error"

(* C15: in the step in which a bulk-write batch of a sync first fails, the *)
(* playlist gets status 'error' with the failure message and the store is  *)
(* left as it is; a sync that had a batch fail stays in the error state.   *)
C15_BatchFailureKeepsCommitted ==
    [][\A k \in Syncs :
          /\ sy'[k].rejected => sy'[k].pc = "error"
          /\ (~sy[k].rejected /\ sy'[k].rejected) =>
                /\ playlist'.status = "error"
                /\ playlist'.error = "bulkWrite"
                /\ store' = store]_vars

(* The second batch of the only sync failed after its first batch had been *)
(* written                                                                 *)
C15_Witness ==
    /\ Len(sy) = 1
    /\ sy[1].svc = "classic"
    /\ sy[1].rejected
    /\ playlist.status = "error"
    /\ BagCardinality(store) = 1

SourceFields(st) == {[channelId |-> r.channelId, name |-> r.name] : r \in BagToSet(st)}

(* C17: a sync that began after the previous one, of the same service, had *)
(* completed, with no other sync at work, and that fetched the list the    *)
(* previous one fetched, completes with the channelIds and names the       *)
(* previous one completed with.                                            *)
C17_SyncIdempotent ==
    [][\A k \in Syncs :
          ( /\ Completing(k)
            /\ k > 1
            /\ sy[k].inTurn
            /\ sy[k - 1].pc = "done"
            /\ sy[k - 1].svc = sy[k].svc
            /\ ~sy[k].fetchFailed
            /\ ~sy[k - 1].fetchFailed
            /\ lastDone.raw = sy[k].raw
            /\ lastDone.oneShot = sy[k].oneShot )
          => SourceFields(store') = SourceFields(lastDone.result)]_vars

(* C18: when syncPlaylist completes, every row whose channelId has an      *)
(* entry in the stored channelSettings carries the entry's isVisible,      *)
(* customName and customLogo, and every other row has isVisible = true.    *)
C18_SettingsApplied ==
    [][\A k \in Syncs : Completing(k) =>
          \A r \in BagToSet(store') :
             IF r.channelId \in DOMAIN playlist'.channelSettings
             THEN /\ r.isVisible = playlist'.channelSettings[r.channelId].isVisible
                  /\ r.customName = playlist'.channelSettings[r.channelId].customName
                  /\ r.customLogo = playlist'.channelSettings[r.channelId].customLogo
             ELSE r.isVisible = TRUE]_vars

(* The syncs of portal and M3U lists whose channels are, place by place,   *)
(* the normalized records of the fetched list                              *)
PlaceByPlace ==
    {k \in Syncs : /\ sy[k].pc \in {"save", "delete", "finish"}
                   /\ sy[k].type # "xtream"
                   /\ Len(sy[k].channels) = Len(sy[k].raw)}

(* C19: in a list normalized together, every record without a native id    *)
(* has a non-empty channelId that no other record of the list has.         *)
C19_PlaceholderUnique ==
    \A k \in PlaceByPlace : \A i \in DOMAIN sy[k].raw :
       sy[k].raw[i].id = NoId =>
          /\ sy[k].channels[i].channelId # ""
          /\ \A j \in DOMAIN sy[k].raw :
                j # i => sy[k].channels[j].channelId # sy[k].channels[i].channelId

(* C20: two normalizations of the same raw record by the same normalizer   *)
(* at the same place of a list yield the same channel.                     *)
C20_NormalizeTwiceSame ==
    \A j \in PlaceByPlace, k \in PlaceByPlace :
       sy[j].svc = sy[k].svc =>
          \A i \in DOMAIN sy[j].raw \cap DOMAIN sy[k].raw :
             sy[j].raw[i] = sy[k].raw[i] => sy[j].channels[i] = sy[k].channels[i]

----------------------------------------------------------------------------
(* Properties of the portal clients *)

(* The decoded reply contains a token *)
HasToken(reply) == reply \in {"token", "tokenTop", "token4xx"}

(* The reply a client takes a token from: status 200 for doHandshake, any   *)
(* status below 500 for the loop of _syncMAG                                *)
Usable(client, reply) ==
    \/ reply \in {"token", "tokenTop"}
    \/ client = "fast" /\ reply = "token4xx"

InListOrder == hs.probed = [i \in 1..Len(hs.probed) |-> i]

(* C21 as stated: doHandshake and the loop of _syncMAG probe the paths in   *)
(* list order and end with the first path whose reply contains a token, or  *)
(* with the default path and a null token when no reply contains one.       *)
C21_FirstTokenPath ==
    hs.client \in {"single", "fast"} =>
       /\ InListOrder
       /\ hs.pc = "done" =>
             LET tp == {p \in Paths : HasToken(hs.portal[p])}
             IN  IF tp = {}
                 THEN hs.apiPath = DefaultPath /\ hs.token = NullToken
                 ELSE /\ hs.apiPath = Min(tp)
                      /\ hs.token = PortalToken
                      /\ Len(hs.probed) = Min(tp)

(* C21, amended: the paths are probed in list order; the handshake ends     *)
(* with the first path that answers with a token and, for doHandshake,      *)
(* with status 200 (any status below 500 for _syncMAG), every other answer  *)
(* only advancing to the next path; when no path answers so it ends with    *)
(* the default path and a null token.                                       *)
C21_FirstUsableTokenPath ==
    hs.client \in {"single", "fast"} =>
       /\ InListOrder
       /\ hs.pc = "done" =>
             LET tp == {p \in Paths : Usable(hs.client, hs.portal[p])}
             IN  IF tp = {}
                 THEN /\ hs.apiPath = DefaultPath
                      /\ hs.token = NullToken
                      /\ Len(hs.probed) = MaxPaths
                 ELSE /\ hs.apiPath = Min(tp)
                      /\ hs.token = PortalToken
                      /\ Len(hs.probed) = Min(tp)

(* doHandshake went past a network error and a reply without token to the   *)
(* third path                                                               *)
C21_Witness ==
    /\ hs.client = "single"
    /\ hs.pc = "done"
    /\ hs.portal[1] = "error"
    /\ hs.portal[2] = "empty"
    /\ hs.portal[3] = "token"
    /\ hs.apiPath = 3

(* C22: when only the third path answers the handshake with a token, the    *)
(* MagStalkerService handshake ends with the third path as current path and *)
(* with its token, and every later call goes to the third path.             *)
C22_ThirdPathCached ==
    ( /\ hs.client = "service"
      /\ hs.pc = "done"
      /\ hs.portal[3] = "token"
      /\ \A p \in Paths \ {3} : ~HasToken(hs.portal[p]) )
    => /\ hs.apiPath = 3
       /\ hs.token = PortalToken
       /\ hs.call.path \in {0, 3}

(* C23: at every instant of the per-genre fallback the number of per-genre *)
(* requests in flight is at most the concurrency bound of the client: 5 in  *)
(* getChannelsByGenre, 8 in _syncMAG.                                       *)
C23_InFlightBounded == Cardinality(gf.inflight) <= ConcurrencyOf(gf.client)

(* the part of C23 about _syncMAG alone *)
C23_FastInFlightBounded ==
    gf.client = "fast" => Cardinality(gf.inflight) <= MAG_CONCURRENCY

(* The playlist parsed from one chunk that holds the whole text *)
WholeParse(text) == OnEnd(OnData(NoParse, text)).channels

(* The lines of a text, the last one being the text after the last newline *)
RECURSIVE LinesOf(_)
LinesOf(t) ==
    LET newlines == {j \in 1..Len(t) : t[j] = "n"} IN
    IF newlines = {} THEN <<t>>
    ELSE <<SubSeq(t, 1, Min(newlines) - 1)>>
            \o LinesOf(SubSeq(t, Min(newlines) + 1, Len(t)))

IsUrlLine(line) == line # << >> /\ ~IsComment(line)

(* The #EXTINF lines that a URL line follows before the next #EXTINF line, *)
(* each with the first such URL line                                        *)
RECURSIVE PairsOf(_, _)
PairsOf(lines, pending) ==
    IF lines = << >> THEN << >>
    ELSE IF IsExtInf(lines[1]) THEN PairsOf(Tail(lines), <<lines[1]>>)
    ELSE IF IsUrlLine(lines[1]) /\ pending # << >>
         THEN <<[extinf |-> pending[1], url |-> lines[1]]>>
                 \o PairsOf(Tail(lines), << >>)
    ELSE PairsOf(Tail(lines), pending)

(* C24, first half: a finished download has one channel per #EXTINF line    *)
(* that a URL line follows, in file order, with the name and the group of   *)
(* that #EXTINF line and the URL of that line.                              *)
C24_OnePerPair ==
    m3.pc = "end" =>
       LET pairs == PairsOf(LinesOf(Utf8ToString(m3.text)), << >>)
           chans == m3.st.channels
       IN  /\ Len(chans) = Len(pairs)
           /\ \A j \in 1..Len(pairs) :
                 /\ chans[j].url = pairs[j].url
                 /\ chans[j].name = Tail(pairs[j].extinf)
                 /\ pairs[j].extinf[1] = "J" =>
                       chans[j].channelId = <<"1">> /\ chans[j].group = "News"

(* C24, second half: the channel list of a finished download is the one     *)
(* parsed from the whole text in one chunk, however the text was split.     *)
C24_ChunkIndependent ==
    m3.pc = "end" => m3.st.channels = WholeParse(m3.text)

(* C24: the streaming parser emits one channel per #EXTINF line followed by *)
(* a URL line, in file order, and the channel list is the same for every    *)
(* way of splitting the playlist text into chunks.                          *)
C24_StreamingParse == C24_OnePerPair /\ C24_ChunkIndependent

(* C25: a stream request whose first upstream attempt returned 404 has made *)
(* exactly one further attempt, against the `/live/...' form, by the time   *)
(* it is answered; and no request makes more than two upstream attempts.    *)
C25_RetryOnceOn404 ==
    /\ Len(fa.attempts) <= 2
    /\ ( /\ fa.pc \in {"piped", "ended", "failed"}
         /\ fa.type = "xtream"
         /\ PathMatch(fa.form)
         /\ fa.first.status = 404 )
       => fa.attempts = <<"requested", "live">>

(* the second half of C25 alone *)
C25_AtMostTwoAttempts == Len(fa.attempts) <= 2

(* C26: a cache lookup made by a request handler for a channel that a sync  *)
(* or an earlier handler of the process cached within the last ten minutes  *)
(* returns the cached data, without a new sync.                             *)
C26_CacheProcessWide ==
    (sv.lookup.handler # "none" /\ sv.lookup.cachedBefore)
       => sv.lookup.fromCache /\ ~sv.lookup.bootstrap

(* The chains that re-sync a playlist and write its secrets to the store *)
ChainsOf(pl) == {ch \in bg.chains : ch.playlistId = pl}

(* C27: a portal playlist whose re-sync was registered has exactly one      *)
(* background chain, whatever else was scheduled or constructed; the chain  *)
(* stays armed or running after a failed run.                               *)
C27_OneResyncChain ==
    \A pl \in PortalPlaylists :
       /\ Cardinality(ChainsOf(pl)) <= 1
       /\ pl \in bg.scheduledResyncs => Cardinality(ChainsOf(pl)) = 1
       /\ \A ch \in ChainsOf(pl) : ch.pc \in {"armed", "running"}

(* the scheduler of playlists.js alone keeps one chain per playlist *)
C27_OneRouteChain ==
    \A pl \in PortalPlaylists :
       Cardinality({ch \in ChainsOf(pl) : ch.origin = "route"})
          = IF pl \in bg.scheduledResyncs THEN 1 ELSE 0

(* Run k issues its deletion in this step *)
Deletes(k) ==
    /\ k \in DOMAIN sy /\ k \in DOMAIN sy'
    /\ sy[k].pc = "delete"
    /\ sy'[k].pc # "delete"

(* C30: a run of either engine issues its deletion of the channels absent   *)
(* from the new set only when every upsert batch of the run has committed.  *)
C30_DeleteAfterAllBatches ==
    [][\A k \in 1..MaxSync : Deletes(k) => sy[k].pending = {}]_vars

(* C30 for FastChannelSyncService._bulkSave alone *)
C30_FastDeleteAfterAllBatches ==
    [][\A k \in 1..MaxSync :
          (Deletes(k) /\ sy[k].svc = "fast") => sy[k].pending = {}]_vars

(* getAccountInfo or getProfile failed: no response, or a body that is not  *)
(* an object with a js member                                               *)
InfoFailed(reply) == reply \in InfoReplies \ {"object", "wrapped"}

(* C29: when getAccountInfo or getProfile failed, syncAll returns the       *)
(* channels it fetched and a default or offline account object.             *)
C29_InfoFailureContained ==
    (sa.pc = "returned" /\ (InfoFailed(sa.account) \/ InfoFailed(sa.profileReply)))
       => /\ sa.result.channels = sa.channels
          /\ InfoFailed(sa.account) => sa.result.accountInfo \in {"offline", "ok", "text"}

(* C29 for the failures that come without a response *)
C29_NoResponseContained ==
    (sa.pc = "returned" /\ sa.account \in NoResponse)
       => sa.result.channels = sa.channels /\ sa.result.accountInfo = "offline"

(* C28: a run started through POST /:playlistId/start publishes at most one *)
(* terminal progress event, exactly one once it has ended, and no           *)
(* non-terminal progress of the run after it; with one run started, GET     *)
(* /:playlistId/status returns the terminal state from then on.             *)
C28_OneTerminalEvent ==
    /\ \A k \in DOMAIN pg.runs :
          /\ pg.runs[k].terminal <= 1
          /\ pg.runs[k].pc = "ended" => pg.runs[k].terminal = 1
          /\ ~pg.runs[k].late
    /\ (Len(pg.runs) = 1 /\ pg.runs[1].terminal = 1) => pg.syncProgress.done

(* the count of terminal events alone *)
C28_TerminalOnce ==
    \A k \in DOMAIN pg.runs :
       /\ pg.runs[k].terminal <= 1
       /\ pg.runs[k].pc = "ended" <=> pg.runs[k].terminal = 1

----------------------------------------------------------------------------
(* Properties of the gateway's connection table *)

Closes(i) == rq[i].upstream = "open" /\ rq'[i].upstream \in {"ended", "errored"}

OwnEntries(conns, i) == {k \in DOMAIN conns : conns[k].stream = i}

(* C31: when the upstream stream of an active connection ends or errors,   *)
(* the entry of its key is removed from the table in the same step; on     *)
(* error the 500 answer is sent exactly when no header had been sent; a    *)
(* response whose headers were sent never gets another status; and a       *)
(* request whose fetch failed has no entry of its own in the table.        *)
C31_EndOrErrorRemovesEntry ==
    [][ \A i \in Reqs :
          /\ Closes(i) => KeyOf(i) \notin DOMAIN activeConnections'
          /\ \A sent \in BOOLEAN :
                StreamError(i, sent) => (rq'[i].status = 500 <=> ~ sent)
          /\ (rq[i].headersSent \/ rq[i].resEnded)
                => rq'[i].status = rq[i].status
          /\ FetchFail(i) => /\ rq'[i].status = 500
                             /\ OwnEntries(activeConnections', i) = {}
                             /\ activeConnections' = activeConnections ]_vars

(* One stream failed before any byte reached the viewer and was answered   *)
(* 500, and the fetch of another request failed, the table being empty.    *)
C31_Witness ==
    \E i, j \in Reqs :
       /\ rq[i].upstream = "errored" /\ rq[i].status = 500
       /\ rq[j].upstream = "none" /\ rq[j].fetched /\ rq[j].status = 500
       /\ DOMAIN activeConnections = {}

(* C32: the end or error of a stream removes no table entry that was       *)
(* created for another stream, and an entry is never replaced by the entry *)
(* of a newer connection while the stream it holds is left open.           *)
C32_OnlyOwnEntryRemoved ==
    [][ /\ \A i \in Reqs :
              Closes(i) =>
                 \A k \in DOMAIN activeConnections :
                    activeConnections[k].stream # i
                       => /\ k \in DOMAIN activeConnections'
                          /\ activeConnections'[k].stream = activeConnections[k].stream
        /\ \A k \in DOMAIN activeConnections \cap DOMAIN activeConnections' :
              activeConnections'[k].stream # activeConnections[k].stream
                 => rq'[activeConnections[k].stream].upstream # "open" ]_vars

(* C33: a stream request answered 429 as a duplicate has terminated no     *)
(* connection that was in the table when it arrived.                       *)
C33_RejectedLeavesTable ==
    \A j \in Reqs :
       rq[j].status = 429 => rq[j].terminated = {}

ConnKeys == {ConnKey(ResolveMac(q), ResolveChannelId(q)) : q \in Queries}

(* C34: every entry put into the active-connection table is eventually     *)
(* removed, also when the viewer disconnects, the upstream keeps sending   *)
(* and no kill or further request for the key arrives.                     *)
C34_EntryEventuallyRemoved ==
    \A k \in ConnKeys :
       (k \in DOMAIN activeConnections) ~> (k \notin DOMAIN activeConnections)

----------------------------------------------------------------------------
(* Properties of the link and session caches *)

(* C35: a play/live.php URL answered by get-stream-single for a portal     *)
(* playlist, fresh or from the cache, carries the base URL and the MAC of  *)
(* the playlist of the request: a URL cached for one playlist is never     *)
(* answered to a request on another playlist with the same channelId.      *)
C35_UrlOfOwnPlaylist ==
    \A j \in Singles :
       (/\ sq[j].pc = "done"
        /\ sq[j].type \in {"mag", "mag_cached"}
        /\ sq[j].url.form = "live.php")
          => LET pl == Playlists[sq[j].in.playlistId] IN
             /\ sq[j].url.base = BasePath(pl)
             /\ sq[j].url.mac = pl.macAddress

Answers == rl.pc # "done" /\ rl'.pc = "done"

PortalRelease == /\ rl.in.playlistId \in DOMAIN Playlists
                 /\ Playlists[rl.in.playlistId].type = "mag"

(* C38 as stated: a release answers success, removes the session of its    *)
(* own MAC only and leaves every cached link of another device in place.   *)
C38_OnlyOwnLinksRemoved ==
    [][ Answers =>
          /\ rl'.success
          /\ \A c \in DOMAIN linkCache :
                (\/ ~ PortalRelease'
                 \/ /\ linkCache[c].url.form = "live.php"
                    /\ linkCache[c].url.mac # Playlists[rl.in.playlistId].macAddress)
                   => c \in DOMAIN linkCache' /\ linkCache'[c] = linkCache[c] ]_vars

(* C38, amended: every release is answered success = true; a release on a  *)
(* portal playlist removes the session entry of the playlist's MAC and     *)
(* empties the whole link cache, the session entries of other MACs staying *)
(* as they are; a release on another or unknown playlist changes neither   *)
(* cache; and no cache changes before the answer.                          *)
C38_ReleaseClearsWholeLinkCache ==
    [][ /\ Answers =>
             /\ rl'.success
             /\ IF PortalRelease'
                THEN LET mac == Playlists[rl'.in.playlistId].macAddress IN
                     /\ linkCache' = EmptyMap
                     /\ mac \notin DOMAIN sessionMap'
                     /\ \A m \in DOMAIN sessionMap \ {mac} :
                           m \in DOMAIN sessionMap' /\ sessionMap'[m] = sessionMap[m]
                ELSE linkCache' = linkCache /\ sessionMap' = sessionMap
        /\ (rl' # rl /\ ~ Answers)
              => linkCache' = linkCache /\ sessionMap' = sessionMap ]_vars

(* A release on playlist p2 removed the link cached for the device of p1   *)
(* and the session of m2, the session of m1 staying.                       *)
C38_Witness ==
    /\ rl.pc = "done" /\ rl.success
    /\ rl.in.playlistId = "p2"
    /\ rl.cleared # {}
    /\ "m1" \in DOMAIN sessionMap
    /\ "m2" \notin DOMAIN sessionMap
    /\ \E j \in Singles : sq[j].in.playlistId = "p2" /\ sq[j].type = "mag_cached"

----------------------------------------------------------------------------
(* Properties of overlapping syncs *)

StoredIds == {r.channelId : r \in BagToSet(store)}

RawIds(raw) == {raw[i].id : i \in DOMAIN raw}

(* A run that began while another was at work, or during which another     *)
(* began                                                                   *)
Overlapped(k) == ~ sy[k].inTurn \/ \E j \in Syncs : j > k

(* C36: when the later of two overlapping sync runs of the playlist        *)
(* completes, both having fetched their list (of records with ids), the    *)
(* channelIds of the store are those of the list fetched by one of the two *)
(* runs.                                                                   *)
C36_OverlapMatchesOneRun ==
    [][\A k \in Syncs :
          ( /\ Completing(k)
            /\ Overlapped(k)
            /\ Syncs # {k}
            /\ \A j \in Syncs : ~ sy[j].fetchFailed /\ (j # k => sy[j].pc = "done")
            /\ lastDone.set
            /\ NoId \notin RawIds(lastDone.raw) \cup RawIds(sy[k].raw) )
          => \/ StoredIds' = ChannelIds(sy[k].channels)
             \/ StoredIds' = RawIds(lastDone.raw)]_vars

(* C37: a sync whose upstream fetch failed, so that it obtained no         *)
(* channel, removes no row of the store.                                   *)
C37_FailedFetchDeletesNothing ==
    [][\A k \in Syncs :
          (sy[k].fetchFailed /\ sy'[k] # sy[k])
             => \A r \in BagToSet(store) : CopiesIn(r, store') >= CopiesIn(r, store)]_vars

(* C39: when a sync completes, every row whose settings were changed       *)
(* through updateChannelVisibility after the sync had read the playlist    *)
(* carries the changed isVisible and customName, not the values the sync   *)
(* read at its start.                                                      *)
C39_ChangeDuringSyncKept ==
    [][\A k \in Syncs : Completing(k) =>
          \A r \in BagToSet(store') :
             LET c == r.channelId IN
             (/\ c \in DOMAIN playlist.channelSettings
              /\ \/ c \notin DOMAIN sy[k].settings
                 \/ sy[k].settings[c] # playlist.channelSettings[c])
                => /\ r.isVisible = playlist.channelSettings[c].isVisible
                   /\ r.customName = playlist.channelSettings[c].customName]_vars

----------------------------------------------------------------------------
(* Properties of the M3U download *)

(* C40: no channel of the M3U parser has for URL a line that begins with   *)
(* '#', the last line of a playlist that does not end in a newline         *)
(* included.                                                               *)
C40_NoCommentAsUrl ==
    \A i \in DOMAIN m3.st.channels : ~ IsComment(m3.st.channels[i].url)

====
